---- MODULE Spec2Model ----
(***************************************************************************)
(* Verification model of mc-gen's world storage core: the palette codec   *)
(* of save_chunk/load_chunk, the Block <-> named-state mapping, the        *)
(* unknown-block registry and the World window (new / area / save).        *)
(*                                                                         *)
(* Arrays keep the code's 0-based indices (functions over 0..n-1); a Vec   *)
(* that grows is a sequence, entry k of the Vec being element k+1.         *)
(* A 64-bit word is the set of its set bit positions (a subset of 0..63),  *)
(* so that shifts, masks and ors are exact.                                *)
(***************************************************************************)
EXTENDS Integers, Sequences, FiniteSets, TLC

VARIABLES
    cpc,           \* codec harness: "section" -> "encoded" -> "decoded"
    section,       \* Section.blocks of the section being saved
    block_states,  \* the block_states record save_chunk emitted: palette, data
    loaded,        \* Section.blocks load_chunk rebuilt from block_states
    UNKNOWN_BLOCKS, \* the static registry of level/block.rs
    bpc,           \* block harness: "named" -> "decoded" -> "encoded" -> "again"
    era,           \* which block module decodes: "world" or "level"
    named_state,   \* the palette entry S read from a chunk
    block_read,       \* Block::from_nbt(S)
    encoded,       \* block.to_nbt()
    block_reread,  \* Block::from_nbt(block.to_nbt())
    lock,          \* the RwLock of UNKNOWN_BLOCKS: the worker writing, or 0
    worker,        \* per load worker: where it is in from_nbt, and its locals
    returned,      \* every <<Blockstate, index>> a from_nbt call has returned
    kpc,           \* chunk harness: "file" -> "loaded" (or "panicked")
    chunk_file,    \* the "sections" list of the chunk record on disk
    sections,      \* the chunk's 24 slots of World.sections
    heightmap,     \* the chunk's 256 entries of World.heightmap
    watermap,      \* the chunk's 256 entries of World.watermap
    probe,         \* what height / water_level / get last returned
    wpc,           \* window harness: "request" -> "open" -> "saved"
    LOAD_MARGIN,   \* the crate constant LOAD_MARGIN, in columns
    requested,     \* the Rect passed to World::new
    chunk_min,     \* World.chunk_min
    chunk_max,     \* World.chunk_max
    chunks_loaded, \* the chunk indices World::new loaded, in slot order
    reported,      \* what the last area() call returned, and through what
    written,       \* the chunk indices save() wrote, in the order written
    level_dat,     \* the Data compound of level.dat
    fpc,           \* function harness: "call" -> "returned"
    fn_arg,        \* the argument of the function called
    fn_ret,        \* what the call returned
    biome,         \* World.biome
    overflow_checks, \* whether the build panics on integer overflow
    calls,         \* how many mutating calls the world has taken
    entities,      \* World.entities: the position of each entity
    entities_chunked, \* save(): the entities of each chunk, by chunk_index
    cursor,        \* save(): how many chunks the loop has passed
    region,        \* the chunk records in the region files, by chunk index
    rotated_block, \* the Block after the rotations so far
    turns_applied, \* the turns of each rotated() call made
    loading,       \* World::new: where each chunk's load_chunk call is
    touched,       \* World::new: the array elements written, and by which call
    apc,           \* assign_worker: "tick" -> "running" -> "returned" -> "applied"
    villager_pos,  \* the Pos of every villager
    jobless,       \* the villagers with the Jobless component
    lumberworker,  \* the Lumberworker.workplace of each villager, or None
    new_built,     \* the lumberjack workplaces built this tick, and their Pos
    built_passed,  \* how many of them the loop has passed
    commands       \* the Commands queued, applied after the system returns

codec_vars == <<cpc, section, block_states, loaded>>
block_vars == <<bpc, era, named_state, block_read, encoded, block_reread>>

intern_vars == <<lock, worker, returned>>
chunk_vars == <<kpc, chunk_file, sections, heightmap, watermap, probe>>
window_vars == <<wpc, LOAD_MARGIN, requested, chunk_min, chunk_max, chunks_loaded,
                 reported, written, level_dat>>

fn_vars == <<fpc, fn_arg, fn_ret>>
access_vars == <<biome, overflow_checks, calls>>
save_vars == <<entities, entities_chunked, cursor, region>>
rot_vars == <<rotated_block, turns_applied>>
load_vars == <<loading, touched>>
assign_vars == <<apc, villager_pos, jobless, lumberworker, new_built, built_passed, commands>>
vars == <<codec_vars, block_vars, intern_vars, chunk_vars, window_vars, fn_vars, access_vars, save_vars, rot_vars, load_vars, assign_vars,
          UNKNOWN_BLOCKS>>

None == <<"None">>
Some(v) == <<"Some", v>>

(***************************************************************************)
(* Blocks.  A Block is a tuple whose first element is the variant name.    *)
(* An enum payload is the variant's name; Material, LogType and Option are   *)
(* tuples again.  A panic of the code is the value PanicBlock (or, where a *)
(* Blockstate is expected, PanicState).                                    *)
(***************************************************************************)
Air == <<"Air">>
Blockstate(name, props) == [name |-> name, props |-> props]
Other(blockstate) == <<"Other", blockstate>>
PanicBlock == <<"!panic">>
PanicState == Blockstate("!panic", <<>>)

\* a palette entry of the wire format: Name, optional Properties compound
Nbt(name, properties) == [Name |-> name, Properties |-> properties]

\* CompoundTag::get_str on a property list (a sequence of <<key, value>>)
get_str(props, key) ==
    IF \E k \in 1..Len(props) : props[k][1] = key
    THEN <<"Ok", props[CHOOSE k \in 1..Len(props) : props[k][1] = key][2]>>
    ELSE <<"Err">>

\* name.strip_prefix("minecraft:").unwrap_or(name)
strip_prefix(name) ==
    IF Len(name) >= 10 /\ SubSeq(name, 1, 10) = "minecraft:"
    THEN SubSeq(name, 11, Len(name)) ELSE name

\* str::parse::<u8>() of a decimal numeral
parse_u8(str) ==
    IF \E n \in 0..255 : ToString(n) = str
    THEN <<"Ok", CHOOSE n \in 0..255 : ToString(n) = str>>
    ELSE <<"Err">>

\* geometry: HDir::from_str / to_str and Axis::to_str use the state names
HDirs == {"north", "east", "south", "west"}
hdir_from_str(str) == IF str \in HDirs THEN <<"Ok", str>> ELSE <<"Err">>

(***************************************************************************)
(* world/block.rs: the Block of the World (format of world/mod.rs).        *)
(***************************************************************************)
species_str ==
    [Oak |-> "oak", Spruce |-> "spruce", Birch |-> "birch", Jungle |-> "jungle",
     Acacia |-> "acacia", DarkOak |-> "dark_oak", Warped |-> "warped",
     Crimson |-> "crimson", Mangrove |-> "mangrove", Cherry |-> "cherry",
     Azalea |-> "azalea", FloweringAzalea |-> "flowering_azalea"]

color_str ==
    [White |-> "white", Orange |-> "orange", Magenta |-> "magenta",
     LightBlue |-> "light_blue", Yellow |-> "yellow", Lime |-> "lime",
     Pink |-> "pink", Gray |-> "gray", LightGray |-> "light_gray",
     Cyan |-> "cyan", Purple |-> "purple", Blue |-> "blue", Brown |-> "brown",
     Green |-> "green", Red |-> "red", Black |-> "black"]

\* Material::to_str / BlockMaterial::to_str
material_str(material) ==
    IF material[1] = "Wood" THEN species_str[material[2]]
    ELSE [Stone |-> "stone", SmoothStone |-> "smooth_stone", Granite |-> "granite",
          PolishedGranite |-> "polished_granite", Diorite |-> "diorite",
          PolishedDiorite |-> "polished_diorite", Andesite |-> "andesite",
          PolishedAndesite |-> "polished_andesite", Cobble |-> "cobblestone",
          MossyCobble |-> "mossy_cobblestone", Stonebrick |-> "stone_brick",
          StoneBrick |-> "stone_brick",
          MossyStonebrick |-> "mossy_stone_brick", Brick |-> "brick",
          Sandstone |-> "sandstone", SmoothSandstone |-> "smooth_sandstone",
          RedSandstone |-> "red_sandstone",
          SmoothRedSandstone |-> "smooth_red_sandstone",
          Blackstone |-> "blackstone", PolishedBlackstone |-> "polished_blackstone",
          PolishedBlackstoneBrick |-> "polished_blackstone_brick",
          MudBrick |-> "mud_brick"][material[1]]

Wood(species) == <<"Wood", species>>
Mat(name) == <<name>>

small_plant_str ==
    [Grass |-> "grass", Fern |-> "fern", DeadBush |-> "dead_bush",
     Dandelion |-> "dandelion", Poppy |-> "poppy", Cornflower |-> "cornflower",
     BlueOrchid |-> "blue_orchid", Allium |-> "allium",
     AzureBluet |-> "azure_bluet", RedTulip |-> "red_tulip",
     OrangeTulip |-> "orange_tulip", WhiteTulip |-> "white_tulip",
     PinkTulip |-> "pink_tulip", OxeyeDaisy |-> "oxeye_daisy",
     BrownMushroom |-> "brown_mushroom", RedMushroom |-> "red_mushroom",
     Seagrass |-> "seagrass"]

tall_plant_str ==
    [Sunflower |-> "sunflower", Lilac |-> "lilac", Grass |-> "tall_grass",
     Fern |-> "large_fern", Rose |-> "rose_bush", Peony |-> "peony",
     Seagrass |-> "tall_seagrass"]

crop_state ==
    [Wheat    |-> Blockstate("wheat", <<<<"age", "7">>>>),
     Carrot   |-> Blockstate("carrot", <<<<"age", "7">>>>),
     Potato   |-> Blockstate("potato", <<<<"age", "7">>>>),
     Beetroot |-> Blockstate("beetroot", <<<<"age", "3">>>>)]

bell_attachment_str ==
    [Floor |-> "floor", Ceiling |-> "ceiling", DoubleWall |-> "double_wall",
     SingleWall |-> "single_wall"]

\* the "level" of a cauldron, the "delay" of a repeater: a match with a panic arm
digit_or_panic(value, lo, hi) ==
    IF value >= lo /\ value <= hi THEN ToString(value) ELSE "!panic"

\* a state whose property value came out of a panicking match arm
checked(state) ==
    IF \E k \in 1..Len(state.props) : state.props[k][2] = "!panic"
    THEN PanicState ELSE state

\* Warped | Crimson => "{}_stem" / "{}_hyphae", _ => "{}_log" / "{}_wood"
log_name(species, fungus, tree) ==
    IF species \in {"Warped", "Crimson"}
    THEN species_str[species] \o fungus ELSE species_str[species] \o tree

\* blocks per section: Section.blocks is [Block; 16 * 16 * 16]
SectionBlocks == 4096
\* bits of the wire format's packed words (i64)
WordBits == 64
\* smallest index width bits_per_index tries
MinBits == 4

axis_str == [X |-> "x", Y |-> "y", Z |-> "z"]

\* "{color}_terracotta" => Terracotta(Some(color)), in both block modules
terracotta_blocks ==
    [name \in {color_str[c] \o "_terracotta" : c \in DOMAIN color_str} |->
        <<"Terracotta", Some(CHOOSE c \in DOMAIN color_str :
                                color_str[c] \o "_terracotta" = name)>>]

\* Block::blockstate (world/block.rs)
blockstate(block) ==
    LET t == block[1] IN
    CASE t = "Air" -> Blockstate("air", <<>>)
      [] t = "FullBlock" ->
            Blockstate(CASE block[2] = Mat("Brick") -> "bricks"
                         [] block[2] = Mat("Stonebrick") -> "stone_bricks"
                         [] block[2] = Mat("PolishedBlackstoneBrick") ->
                                "polished_blackstone_bricks"
                         [] OTHER -> material_str(block[2]), <<>>)
      [] t = "Planks" -> Blockstate(species_str[block[2]] \o "_planks", <<>>)
      [] t = "Soil" ->
            Blockstate([Grass |-> "grass_block", Dirt |-> "dirt", Sand |-> "sand",
                        Gravel |-> "gravel", Farmland |-> "farmland",
                        Path |-> "grass_path", CoarseDirt |-> "coarse_dirt",
                        Podzol |-> "podzol", SoulSand |-> "soul_sand"][block[2]], <<>>)
      [] t = "Bedrock" -> Blockstate("bedrock", <<>>)
      [] t = "Water" -> Blockstate("water", <<>>)
      [] t = "Lava" -> Blockstate("lava", <<>>)
      [] t = "Log" ->
            IF block[3][1] = "Normal"
            THEN Blockstate(log_name(block[2], "_stem", "_log"),
                            <<<<"axis", axis_str[block[3][2]]>>>>)
            ELSE Blockstate(log_name(block[2], "_hyphae", "_wood"), <<>>)
      [] t = "Leaves" ->
            Blockstate(species_str[block[2]] \o "_leaves", <<<<"persistent", "true">>>>)
      [] t = "GroundPlant" ->
            LET plant == block[2] IN
            (CASE plant[1] = "Sapling" ->
                    Blockstate(species_str[plant[2]] \o "_sapling", <<>>)
              [] plant[1] = "Small" -> Blockstate(small_plant_str[plant[2]], <<>>)
              [] plant[1] = "Cactus" -> Blockstate("cactus", <<>>)
              [] plant[1] = "Reeds" -> Blockstate("sugar_cane", <<>>)
              [] plant[1] = "Pumpkin" -> Blockstate("pumpkin", <<>>)
              [] plant[1] = "Tall" ->
                    Blockstate(tall_plant_str[plant[2]],
                               <<<<"half", IF plant[3] THEN "upper" ELSE "lower">>>>)
              [] plant[1] = "Crop" -> crop_state[plant[2]])
      [] t = "Fence" ->
            Blockstate(material_str(block[2])
                           \o (IF block[2][1] = "Wood" THEN "_fence" ELSE "_wall"), <<>>)
      [] t = "Wool" -> Blockstate(color_str[block[2]] \o "_wool", <<>>)
      [] t = "Terracotta" ->
            IF block[2] = None THEN Blockstate("terracotta", <<>>)
            ELSE Blockstate(color_str[block[2][2]] \o "_terracotta", <<>>)
      [] t = "SmoothQuartz" -> Blockstate("smooth_quartz", <<>>)
      [] t = "SnowLayer" -> Blockstate("snow", <<<<"layers", "1">>>>)
      [] t = "Glowstone" -> Blockstate("glowstone", <<>>)
      [] t = "GlassPane" ->
            IF block[2] = None THEN Blockstate("glass_pane", <<>>)
            ELSE Blockstate(color_str[block[2][2]] \o "_stained_glass_pane", <<>>)
      [] t = "WallBanner" ->
            Blockstate(color_str[block[3]] \o "_wall_banner", <<<<"facing", block[2]>>>>)
      [] t = "Hay" -> Blockstate("hay_block", <<>>)
      [] t = "Slab" ->
            Blockstate(material_str(block[2]) \o "_slab",
                       <<<<"type", IF block[3] THEN "top" ELSE "bottom">>>>)
      [] t = "Stair" ->
            Blockstate(material_str(block[2]) \o "_stairs",
                       <<<<"half", IF block[4] THEN "top" ELSE "bottom">>,
                         <<"facing", block[3]>>>>)
      [] t = "Cauldron" ->
            checked(Blockstate("cauldron",
                               <<<<"level", digit_or_panic(block[2], 0, 3)>>>>))
      [] t = "Bell" ->
            Blockstate("bell", <<<<"facing", block[2]>>,
                                 <<"attachment", bell_attachment_str[block[3]]>>>>)
      [] t = "Repeater" ->
            checked(Blockstate("repeater",
                               <<<<"delay", digit_or_panic(block[3], 1, 4)>>,
                                 <<"facing", block[2]>>>>))
      [] t = "Barrier" -> Blockstate("barrier", <<>>)
      [] t = "CommandBlock" -> Blockstate("command_block", <<>>)
      [] t = "Other" -> block[2]

\* the nbt a Blockstate is written as: Properties only when there are some
state_nbt(state) ==
    Nbt(state.name, IF Len(state.props) > 0 THEN Some(state.props) ELSE None)

\* Block::to_nbt (world/block.rs); PanicState when blockstate() panics
to_nbt(block) ==
    IF blockstate(block) = PanicState THEN PanicState
    ELSE state_nbt(blockstate(block))

slab(material, props) ==
    LET type == get_str(props, "type") IN
    IF type[1] = "Err" THEN PanicBlock
    ELSE IF type[2] = "top" THEN <<"Slab", material, TRUE>>
    ELSE IF type[2] = "double" THEN <<"FullBlock", material>>
    ELSE <<"Slab", material, FALSE>>

\* HDir::from_str(props.get_str("facing").unwrap()).unwrap()
facing(props) ==
    IF get_str(props, "facing")[1] = "Err" THEN <<"Err">>
    ELSE hdir_from_str(get_str(props, "facing")[2])

stair(material, props) ==
    IF facing(props)[1] = "Err" \/ get_str(props, "half")[1] = "Err" THEN PanicBlock
    ELSE <<"Stair", material, facing(props)[2], get_str(props, "half")[2] = "top">>

log(species, props) ==
    LET axis == get_str(props, "axis") IN
    IF axis[1] = "Err" THEN PanicBlock
    ELSE CASE axis[2] = "x" -> <<"Log", species, <<"Normal", "X">>>>
           [] axis[2] = "y" -> <<"Log", species, <<"Normal", "Y">>>>
           [] axis[2] = "z" -> <<"Log", species, <<"Normal", "Z">>>>
           [] axis[2] = "none" -> <<"Log", species, <<"FullBark">>>>
           [] OTHER -> PanicBlock

wall_banner(color, props) ==
    IF facing(props)[1] = "Err" THEN PanicBlock
    ELSE <<"WallBanner", facing(props)[2], color>>

bell(props) ==
    IF facing(props)[1] = "Err" \/ get_str(props, "attachment")[1] = "Err"
    THEN PanicBlock
    ELSE <<"Bell", facing(props)[2],
           CASE get_str(props, "attachment")[2] = "floor" -> "Floor"
             [] get_str(props, "attachment")[2] = "ceiling" -> "Ceiling"
             [] get_str(props, "attachment")[2] = "single_wall" -> "SingleWall"
             [] OTHER -> "DoubleWall">>

\* the arms of known_block that ignore the properties (world/block.rs)
plain_blocks ==
    [air |-> Air, cave_air |-> Air,
     stone |-> <<"FullBlock", Mat("Stone")>>,
     granite |-> <<"FullBlock", Mat("Granite")>>,
     diorite |-> <<"FullBlock", Mat("Diorite")>>,
     andesite |-> <<"FullBlock", Mat("Andesite")>>,
     cobblestone |-> <<"FullBlock", Mat("Cobble")>>,
     bricks |-> <<"FullBlock", Mat("Brick")>>,
     stone_bricks |-> <<"FullBlock", Mat("Stonebrick")>>,
     bedrock |-> <<"Bedrock">>,
     gravel |-> <<"Soil", "Gravel">>,
     grass_block |-> <<"Soil", "Grass">>,
     sand |-> <<"Soil", "Sand">>,
     oak_leaves |-> <<"Leaves", "Oak">>,
     spruce_leaves |-> <<"Leaves", "Spruce">>,
     birch_leaves |-> <<"Leaves", "Birch">>,
     jungle_leaves |-> <<"Leaves", "Jungle">>,
     acacie_leaves |-> <<"Leaves", "Acacia">>,
     dark_oak_leaves |-> <<"Leaves", "DarkOak">>,
     grass |-> <<"GroundPlant", <<"Small", "Grass">>>>,
     fence |-> <<"Fence", Wood("Oak")>>,
     cobblestone_wall |-> <<"Fence", Mat("MossyCobble")>>,
     mossy_cobblestone_wall |-> <<"Fence", Mat("MossyCobble")>>,
     terracotta |-> <<"Terracotta", None>>]
    @@ terracotta_blocks

log_species ==
    [oak_log |-> "Oak", spruce_log |-> "Spruce", birch_log |-> "Birch",
     jungle_log |-> "Jungle", acacia_log |-> "Acacia", dark_oak_log |-> "DarkOak"]

slab_material ==
    [oak_slab |-> Wood("Oak"), spruce_slab |-> Wood("Spruce"),
     birch_slab |-> Wood("Birch"), jungle_slab |-> Wood("Jungle"),
     acacia_slab |-> Wood("Acacia"), dark_oak_slab |-> Wood("DarkOak"),
     cobblestone_slab |-> Mat("Cobble"),
     mossy_cobblestone_slab |-> Mat("MossyCobble"),
     stone_brick_slab |-> Mat("Stonebrick"),
     mossy_stone_brick_slab |-> Mat("MossyStonebrick"),
     blackstone_slab |-> Mat("Blackstone"),
     polished_blackstone_slab |-> Mat("PolishedBlackstone")]

stair_material ==
    [oak_stairs |-> Wood("Oak"), spruce_stairs |-> Wood("Spruce"),
     birch_stairs |-> Wood("Birch"), jungle_stairs |-> Wood("Jungle"),
     acacia_stairs |-> Wood("Acacia"), dark_oak_stairs |-> Wood("DarkOak"),
     stone_brick_stairs |-> Mat("Stonebrick"),
     blackstone_stairs |-> Mat("Blackstone")]

\* every *_wall_banner arm builds wall_banner(Red, props)
banner_color ==
    [red_wall_banner |-> "Red", white_wall_banner |-> "Red",
     blue_wall_banner |-> "Red", green_wall_banner |-> "Red",
     yellow_wall_banner |-> "Red"]

\* known_block (world/block.rs): a Block, <<"Err">> (no arm, or a `?` on a
\* missing property) or PanicBlock
known_block(name, props) ==
    CASE name \in DOMAIN plain_blocks -> plain_blocks[name]
      [] name = "dirt" /\ get_str(props, "variant")[1] = "Err" -> <<"Soil", "Dirt">>
      [] name = "dirt" /\ get_str(props, "variant") = <<"Ok", "coarse_dirt">> ->
            <<"Soil", "CoarseDirt">>
      [] name \in DOMAIN log_species -> log(log_species[name], props)
      [] name \in DOMAIN slab_material -> slab(slab_material[name], props)
      [] name \in DOMAIN stair_material -> stair(stair_material[name], props)
      [] name = "cauldron" ->
            IF get_str(props, "level")[1] = "Err" THEN <<"Err">>
            ELSE IF parse_u8(get_str(props, "level")[2])[1] = "Err" THEN PanicBlock
            ELSE <<"Cauldron", parse_u8(get_str(props, "level")[2])[2]>>
      [] name = "bell" -> bell(props)
      [] name \in DOMAIN banner_color -> wall_banner(banner_color[name], props)
      [] OTHER -> <<"Err">>

\* the properties of a palette entry: absent Properties read as no properties
nbt_props(nbt) == IF nbt.Properties = None THEN <<>> ELSE nbt.Properties[2]

\* Block::from_nbt (world/block.rs)
from_nbt(nbt) ==
    LET name == strip_prefix(nbt.Name)
        known == known_block(name, nbt_props(nbt))
    IN  IF known = <<"Err">> THEN Other(Blockstate(name, nbt_props(nbt)))
        ELSE known

\* Block::solid (world/block.rs)
solid(block) ==
    block[1] \notin {"Air", "Water", "Lava", "GroundPlant", "Leaves", "SnowLayer"}

(***************************************************************************)
(* level/block.rs: the Block of the Level, and the registry of unknown     *)
(* states.  The registry's states are kept in two parts: the `interned`    *)
(* states that earlier loads of the process left in it, state k of them    *)
(* being unknown_state(k) at index k, and behind them the states pushed    *)
(* since.  map holds the entries inserted since.                           *)
(***************************************************************************)
\* the width of Other's index: `unknown_blocks.states.len() as u16`
U16 == 65536

unknown_state(k) == Blockstate("unknown_" \o ToString(k), <<>>)

digit ==
    [c \in {"0", "1", "2", "3", "4", "5", "6", "7", "8", "9"} |->
        CHOOSE n \in 0..9 : ToString(n) = c]

RECURSIVE parse_nat(_)
\* str::parse of a numeral of at most six digits: <<"Ok", n>> or <<"Err">>
parse_nat(str) ==
    IF Len(str) = 0 \/ Len(str) > 6 \/ SubSeq(str, Len(str), Len(str)) \notin DOMAIN digit
    THEN <<"Err">>
    ELSE IF Len(str) = 1 THEN <<"Ok", digit[str]>>
    ELSE LET front == parse_nat(SubSeq(str, 1, Len(str) - 1)) IN
         IF front[1] = "Err" THEN front
         ELSE <<"Ok", 10 * front[2] + digit[SubSeq(str, Len(str), Len(str))]>>

\* the index of `state` among the first `interned` states, or None
interned_index(state, interned) ==
    LET number == IF Len(state.name) > 8 /\ SubSeq(state.name, 1, 8) = "unknown_"
                  THEN parse_nat(SubSeq(state.name, 9, Len(state.name)))
                  ELSE <<"Err">>
    IN  IF state.props = <<>> /\ number[1] = "Ok" /\ number[2] < interned
           /\ unknown_state(number[2]) = state
        THEN Some(number[2]) ELSE None

\* UnknownBlocks: Default::default() after `interned` earlier insertions
UnknownBlocks(interned) == [interned |-> interned, map |-> <<>>, states |-> <<>>]

\* unknown_blocks.map.get(&blockstate)
map_get(unknown, state) ==
    IF state \in DOMAIN unknown.map THEN Some(unknown.map[state])
    ELSE interned_index(state, unknown.interned)

\* unknown_blocks.states.len()
states_len(unknown) == unknown.interned + Len(unknown.states)

\* unknown.states[index]: PanicState when the index is out of bounds
states_get(unknown, index) ==
    IF index < unknown.interned THEN unknown_state(index)
    ELSE IF index < states_len(unknown) THEN unknown.states[index - unknown.interned + 1]
    ELSE PanicState

\* unknown_blocks.map.insert(blockstate.clone(), index)
map_insert(unknown, state, index) ==
    [unknown EXCEPT !.map = [key \in DOMAIN unknown.map \cup {state} |->
                                IF key = state THEN index ELSE unknown.map[key]]]

\* unknown_blocks.states.push(blockstate)
states_push(unknown, state) == [unknown EXCEPT !.states = Append(unknown.states, state)]

\* geometry: `impl FromStr for Axis`, as log_axis uses it
axis_from_str(str) ==
    CASE str = "x" -> <<"Ok", "X">>
      [] str = "y" -> <<"Ok", "Y">>
      [] str = "z" -> <<"Ok", "Z">>
      [] OTHER -> <<"Err">>

\* str::parse::<i8>() of a decimal numeral
parse_i8(str) ==
    IF \E n \in -128..127 : ToString(n) = str
    THEN <<"Ok", CHOOSE n \in -128..127 : ToString(n) = str>>
    ELSE <<"Err">>

\* Block::blockstate (level/block.rs)
level_blockstate(block, unknown) ==
    LET t == block[1]
        half_str == [Top |-> "top", Bottom |-> "bottom"]
        door_props(upper, lower) ==
            <<<<"facing", block[3]>>,
              <<"half", IF "TOP" \in block[4] THEN upper ELSE lower>>,
              <<"open", IF "OPEN" \in block[4] THEN "true" ELSE "false">>>>
    IN
    CASE t \in {"Air", "Water", "Lava", "SoulSand", "PackedMud", "Bedrock",
                "MushroomStem", "MangroveRoots", "MuddyMangroveRoots",
                "SmoothQuartz", "Glowstone", "Hay", "Barrel", "Barrier",
                "CraftingTable", "Dirt", "Grass", "Sand", "Gravel", "Farmland",
                "Path", "CoarseDirt", "Podzol"} ->
            Blockstate([Air |-> "air", Water |-> "water", Lava |-> "lava",
                        Grass |-> "grass_block", Dirt |-> "dirt", Sand |-> "sand",
                        Gravel |-> "gravel", Farmland |-> "farmland",
                        Path |-> "grass_path", CoarseDirt |-> "coarse_dirt",
                        Podzol |-> "podzol", SoulSand |-> "soul_sand",
                        PackedMud |-> "packed_mud", Bedrock |-> "bedrock",
                        MushroomStem |-> "mushroom_stem",
                        MangroveRoots |-> "mangrove_roots",
                        MuddyMangroveRoots |-> "muddy_mangrove_roots",
                        SmoothQuartz |-> "smooth_quartz", Glowstone |-> "glowstone",
                        Hay |-> "hay_block", Barrel |-> "barrel",
                        Barrier |-> "barrier",
                        CraftingTable |-> "crafting_table"][t], <<>>)
      [] t = "Full" ->
            Blockstate(CASE block[2][1] = "Wood" -> species_str[block[2][2]] \o "_planks"
                         [] block[2] = Mat("Brick") -> "bricks"
                         [] block[2] = Mat("StoneBrick") -> "stone_bricks"
                         [] block[2] = Mat("MudBrick") -> "mud_bricks"
                         [] block[2] = Mat("PolishedBlackstoneBrick") ->
                                "polished_blackstone_bricks"
                         [] OTHER -> material_str(block[2]), <<>>)
      [] t = "Log" ->
            (CASE block[3][1] = "Normal" ->
                    Blockstate(log_name(block[2], "_stem", "_log"),
                               <<<<"axis", axis_str[block[3][2]]>>>>)
              [] block[3][1] = "FullBark" ->
                    Blockstate(log_name(block[2], "_hyphae", "_wood"), <<>>)
              [] block[3][1] = "Stripped" ->
                    Blockstate(IF block[2] \in {"Warped", "Crimson"}
                               THEN species_str[block[2]] \o "_stem"
                               ELSE "stripped_" \o species_str[block[2]] \o "_log",
                               <<<<"axis", axis_str[block[3][2]]>>>>))
      [] t = "Leaves" ->
            Blockstate(species_str[block[2]] \o "_leaves",
                       IF block[3] = None THEN <<<<"persistent", "true">>>>
                       ELSE <<<<"persistent", "false">>,
                              <<"distance", ToString(block[3][2])>>>>)
      [] t = "SmallPlant" -> Blockstate(small_plant_str[block[2]], <<>>)
      [] t = "TallPlant" ->
            Blockstate(tall_plant_str[block[2]],
                       <<<<"half", IF block[3] = "Top" THEN "upper" ELSE "lower">>>>)
      [] t = "GroundPlant" ->
            LET plant == block[2] IN
            (CASE plant[1] = "Sapling" ->
                    Blockstate(species_str[plant[2]] \o "_sapling", <<>>)
              [] plant[1] = "Cactus" -> Blockstate("cactus", <<>>)
              [] plant[1] = "Reeds" -> Blockstate("sugar_cane", <<>>)
              [] plant[1] = "Pumpkin" -> Blockstate("pumpkin", <<>>)
              [] plant[1] = "Crop" -> crop_state[plant[2]])
      [] t = "Fence" ->
            Blockstate(material_str(block[2])
                           \o (IF block[2][1] = "Wood" THEN "_fence" ELSE "_wall"), <<>>)
      [] t = "Ladder" -> Blockstate("ladder", <<<<"facing", block[2]>>>>)
      [] t = "Wool" -> Blockstate(color_str[block[2]] \o "_wool", <<>>)
      [] t = "Terracotta" ->
            IF block[2] = None THEN Blockstate("terracotta", <<>>)
            ELSE Blockstate(color_str[block[2][2]] \o "_terracotta", <<>>)
      [] t = "SnowLayer" -> Blockstate("snow", <<<<"layers", "1">>>>)
      [] t = "GlassPane" ->
            IF block[2] = None THEN Blockstate("glass_pane", <<>>)
            ELSE Blockstate(color_str[block[2][2]] \o "_stained_glass_pane", <<>>)
      [] t = "WallBanner" ->
            Blockstate(color_str[block[3]] \o "_wall_banner", <<<<"facing", block[2]>>>>)
      [] t = "Slab" ->
            Blockstate(material_str(block[2]) \o "_slab",
                       <<<<"type", half_str[block[3]]>>>>)
      [] t = "Stair" ->
            Blockstate(material_str(block[2]) \o "_stairs",
                       <<<<"half", half_str[block[4]]>>, <<"facing", block[3]>>>>)
      [] t = "Cauldron" ->
            checked(Blockstate("cauldron",
                               <<<<"level", digit_or_panic(block[2], 0, 3)>>>>))
      [] t = "Trapdoor" ->
            Blockstate(species_str[block[2]] \o "_trapdoor", door_props("top", "bottom"))
      [] t = "Door" ->
            Blockstate(species_str[block[2]] \o "_door", door_props("upper", "lower"))
      [] t = "Bell" ->
            Blockstate("bell", <<<<"facing", block[2]>>,
                                 <<"attachment", bell_attachment_str[block[3]]>>>>)
      [] t = "Repeater" ->
            checked(Blockstate("repeater",
                               <<<<"delay", digit_or_panic(block[3], 1, 4)>>,
                                 <<"facing", block[2]>>>>))
      [] t = "Rail" ->
            Blockstate("rail", <<<<"shape", IF block[2] = "X" THEN "north_south"
                                            ELSE "east_west">>>>)
      [] t = "Stonecutter" ->
            Blockstate("stonecutter",
                       <<<<"facing", IF block[2] = "X" THEN "south" ELSE "east">>>>)
      [] t = "Other" -> states_get(unknown, block[2])

\* Block::to_nbt (level/block.rs); PanicState when blockstate() panics
level_to_nbt(block, unknown) ==
    IF level_blockstate(block, unknown) = PanicState THEN PanicState
    ELSE state_nbt(level_blockstate(block, unknown))

\* fn half: <<"Ok", Half>>, or <<"Err">> for the unwrap of a missing property
half(props) ==
    IF get_str(props, "half")[1] = "Err" THEN <<"Err">>
    ELSE IF get_str(props, "half")[2] \in {"upper", "top"} THEN <<"Ok", "Top">>
    ELSE <<"Ok", "Bottom">>

level_slab(material, props) ==
    LET type == get_str(props, "type") IN
    IF type[1] = "Err" THEN PanicBlock
    ELSE IF type[2] = "top" THEN <<"Slab", material, "Top">>
    ELSE IF type[2] = "double" THEN <<"Full", material>>
    ELSE <<"Slab", material, "Bottom">>

level_stair(material, props) ==
    IF facing(props)[1] = "Err" \/ half(props)[1] = "Err" THEN PanicBlock
    ELSE <<"Stair", material, facing(props)[2], half(props)[2]>>

leaves(species, props) ==
    LET persistent == get_str(props, "persistent")
        distance == get_str(props, "distance")
    IN  IF persistent[1] = "Err" THEN PanicBlock
        ELSE IF persistent[2] # "false" THEN <<"Leaves", species, None>>
        ELSE IF distance[1] = "Err" THEN PanicBlock
        ELSE IF parse_i8(distance[2])[1] = "Err" THEN PanicBlock
        ELSE <<"Leaves", species, Some(parse_i8(distance[2])[2])>>

\* fn trapdoor (top = "top") and fn door (top = "upper")
door(variant, species, props, top) ==
    IF facing(props)[1] = "Err" \/ get_str(props, "half")[1] = "Err"
       \/ get_str(props, "open")[1] = "Err"
    THEN PanicBlock
    ELSE <<variant, species, facing(props)[2],
           (IF get_str(props, "half")[2] = top THEN {"TOP"} ELSE {})
               \cup (IF get_str(props, "open")[2] = "true" THEN {"OPEN"} ELSE {})>>

\* Log(species, log_type(log_axis(props)))
level_log(species, log_type, props) ==
    IF get_str(props, "axis")[1] = "Err" THEN PanicBlock
    ELSE IF axis_from_str(get_str(props, "axis")[2])[1] = "Err" THEN PanicBlock
    ELSE <<"Log", species, <<log_type, axis_from_str(get_str(props, "axis")[2])[2]>>>>

tall_plant(plant, props) ==
    IF half(props)[1] = "Err" THEN PanicBlock
    ELSE <<"TallPlant", plant, half(props)[2]>>

\* the arms of known_block that ignore the properties (level/block.rs)
level_plain_blocks ==
    [air |-> Air, cave_air |-> Air, tall_seagrass |-> <<"Water">>,
     stone |-> <<"Full", Mat("Stone")>>, granite |-> <<"Full", Mat("Granite")>>,
     diorite |-> <<"Full", Mat("Diorite")>>,
     andesite |-> <<"Full", Mat("Andesite")>>,
     cobblestone |-> <<"Full", Mat("Cobble")>>,
     bricks |-> <<"Full", Mat("Brick")>>,
     stone_bricks |-> <<"Full", Mat("StoneBrick")>>,
     mud_bricks |-> <<"Full", Mat("MudBrick")>>,
     packed_pud |-> <<"PackedMud">>, bedrock |-> <<"Bedrock">>,
     gravel |-> <<"Gravel">>, grass_block |-> <<"Grass">>, sand |-> <<"Sand">>,
     oak_planks |-> <<"Full", Wood("Oak")>>,
     snow |-> <<"SnowLayer">>, fence |-> <<"Fence", Wood("Oak")>>,
     cobblestone_wall |-> <<"Fence", Mat("MossyCobble")>>,
     mossy_cobblestone_wall |-> <<"Fence", Mat("MossyCobble")>>,
     terracotta |-> <<"Terracotta", None>>,
     mushroom_stem |-> <<"MushroomStem">>,
     mangrove_roots |-> <<"MangroveRoots">>,
     muddy_mangrove_roots |-> <<"MuddyMangroveRoots">>,
     barrel |-> <<"Barrel">>]
    @@ terracotta_blocks
    @@ [name \in {small_plant_str[plant] : plant \in DOMAIN small_plant_str} |->
            <<"SmallPlant", CHOOSE plant \in DOMAIN small_plant_str :
                                small_plant_str[plant] = name>>]

level_log_species ==
    log_species @@ [mangrove_log |-> "Mangrove", cherry_log |-> "Cherry"]

leaves_species ==
    [oak_leaves |-> "Oak", spruce_leaves |-> "Spruce", birch_leaves |-> "Birch",
     jungle_leaves |-> "Jungle", acacie_leaves |-> "Acacia",
     dark_oak_leaves |-> "DarkOak", azalea_leaves |-> "Azalea",
     flowering_azalea_leaves |-> "FloweringAzalea"]

tall_plant_kind ==
    [tall_grass |-> "Grass", large_fern |-> "Fern", sunflower |-> "Sunflower",
     lilac |-> "Lilac", rose_bush |-> "Rose", peony |-> "Peony"]

level_slab_material ==
    [oak_slab |-> Wood("Oak"), spruce_slab |-> Wood("Spruce"),
     birch_slab |-> Wood("Birch"), jungle_slab |-> Wood("Jungle"),
     acacia_slab |-> Wood("Acacia"), dark_oak_slab |-> Wood("DarkOak"),
     cobblestone_slab |-> Mat("Cobble"),
     mossy_cobblestone_slab |-> Mat("MossyCobble"),
     stone_brick_slab |-> Mat("StoneBrick"),
     mossy_stone_brick_slab |-> Mat("MossyStonebrick"),
     blackstone_slab |-> Mat("Blackstone"),
     polished_blackstone_slab |-> Mat("PolishedBlackstone"),
     mud_brick_slab |-> Mat("MudBrick")]

level_stair_material ==
    [oak_stairs |-> Wood("Oak"), spruce_stairs |-> Wood("Spruce"),
     birch_stairs |-> Wood("Birch"), jungle_stairs |-> Wood("Jungle"),
     acacia_stairs |-> Wood("Acacia"), dark_oak_stairs |-> Wood("DarkOak"),
     cobblestone_stairs |-> Mat("Cobble"),
     stone_brick_stairs |-> Mat("StoneBrick"),
     blackstone_stairs |-> Mat("Blackstone"),
     mud_brick_stairs |-> Mat("MudBrick")]

\* known_block (level/block.rs): Some(block), None or PanicBlock
level_known_block(name, props) ==
    CASE name \in DOMAIN level_plain_blocks -> Some(level_plain_blocks[name])
      [] name = "water" ->
            IF get_str(props, "level") = <<"Ok", "0">> THEN Some(<<"Water">>)
            ELSE Some(Air)
      [] name = "dirt" /\ get_str(props, "variant")[1] = "Err" -> Some(<<"Dirt">>)
      [] name = "dirt" /\ get_str(props, "variant") = <<"Ok", "coarse_dirt">> ->
            Some(<<"CoarseDirt">>)
      [] name \in DOMAIN level_log_species ->
            Some(level_log(level_log_species[name], "Normal", props))
      [] name = "stripped_oak_log" -> Some(level_log("Oak", "Stripped", props))
      [] name \in DOMAIN leaves_species -> Some(leaves(leaves_species[name], props))
      [] name \in DOMAIN tall_plant_kind ->
            Some(tall_plant(tall_plant_kind[name], props))
      [] name \in DOMAIN level_slab_material ->
            Some(level_slab(level_slab_material[name], props))
      [] name \in DOMAIN level_stair_material ->
            Some(level_stair(level_stair_material[name], props))
      [] name = "cauldron" ->
            LET level == IF get_str(props, "level")[1] = "Err" THEN "0"
                         ELSE get_str(props, "level")[2]
            IN  IF parse_u8(level)[1] = "Err" THEN Some(PanicBlock)
                ELSE Some(<<"Cauldron", parse_u8(level)[2]>>)
      [] name \in {"oak_trapdoor", "spruce_trapdoor"} ->
            Some(door("Trapdoor", IF name = "oak_trapdoor" THEN "Oak" ELSE "Spruce",
                      props, "top"))
      [] name \in {"oak_door", "spruce_door"} ->
            Some(door("Door", IF name = "oak_door" THEN "Oak" ELSE "Spruce",
                      props, "upper"))
      [] name = "bell" -> Some(bell(props))
      [] name \in DOMAIN banner_color -> Some(wall_banner(banner_color[name], props))
      [] name = "ladder" ->
            IF facing(props)[1] = "Err" THEN Some(PanicBlock)
            ELSE Some(<<"Ladder", facing(props)[2]>>)
      [] OTHER -> None

\* the write-locked block of from_nbt: look the state up, else append it
intern(state, unknown) ==
    IF map_get(unknown, state) # None
    THEN [index |-> map_get(unknown, state)[2], unknown |-> unknown]
    ELSE LET index == states_len(unknown) % U16 IN
         [index |-> index,
          unknown |-> states_push(map_insert(unknown, state, index), state)]

\* Block::from_nbt (level/block.rs) run without interruption: the Block and
\* the registry it leaves
level_from_nbt(nbt, unknown) ==
    LET name == strip_prefix(nbt.Name)
        known == level_known_block(name, nbt_props(nbt))
        interned == intern(Blockstate(name, nbt_props(nbt)), unknown)
    IN  IF known # None THEN [block |-> known[2], unknown |-> unknown]
        ELSE [block |-> <<"Other", interned.index>>, unknown |-> interned.unknown]

(***************************************************************************)
(* 64-bit words as sets of bit positions.                                  *)
(***************************************************************************)
Pow2(k) == 2 ^ k

\* the usize value n (n < 2^31 here) as a 64-bit word
BitsOf(n) == {k \in 0..30 : (n \div Pow2(k)) % 2 = 1}

\* packed << shift on a 64-bit value: bits shifted past bit 63 are lost
Shl(w, shift) == {k + shift : k \in w} \cap (0..(WordBits - 1))

\* packed.shr(shift)
Shr(w, shift) == {k - shift : k \in {j \in w : j >= shift}}

\* value % (1 << bits)
LowBits(w, bits) == {k \in w : k < bits}

RECURSIVE SumPow2(_)
SumPow2(w) ==
    IF w = {} THEN 0
    ELSE LET k == CHOOSE j \in w : TRUE IN Pow2(k) + SumPow2(w \ {k})

\* a word known to be below 2^31, as a number
ToNat(w) == SumPow2(w)

(***************************************************************************)
(* bits_per_index: for bits in 4.. { if palette_len <= 1 << bits ... }     *)
(***************************************************************************)
RECURSIVE bits_from(_, _)
bits_from(palette_len, bits) ==
    IF palette_len <= Pow2(bits) THEN bits ELSE bits_from(palette_len, bits + 1)

\* the same loop with `<` for `<=`
bits_per_index_exclusive(palette_len) == bits_from(palette_len + 1, MinBits)

bits_per_index(palette_len) == bits_from(palette_len, MinBits)

(***************************************************************************)
(* save_chunk, palette: Some(Air).iter().chain(section.blocks.iter()),     *)
(* each block not yet a key is inserted with index palette.len() and       *)
(* emitted.  map is the HashMap, list the emitted palette in order.        *)
(***************************************************************************)
palette_insert(block, st) ==
    IF block \in DOMAIN st.map THEN st
    ELSE [map  |-> st.map @@ (block :> Cardinality(DOMAIN st.map)),
          list |-> Append(st.list, block)]

\* the iterations lo..hi-1 over section.blocks, in order
RECURSIVE palette_loop(_, _, _, _)
palette_loop(blocks, lo, hi, st) ==
    IF lo >= hi THEN st
    ELSE IF hi = lo + 1 THEN palette_insert(blocks[lo], st)
    ELSE LET mid  == (lo + hi) \div 2
             left == palette_loop(blocks, lo, mid, st)
         IN  IF Len(left.list) = 0 THEN left
             ELSE palette_loop(blocks, mid, hi, left)

\* the same without the leading Some(Air)
build_palette_unchained(blocks) ==
    palette_loop(blocks, 0, SectionBlocks, [map |-> <<>>, list |-> <<>>])

build_palette(blocks) ==
    palette_loop(blocks, 0, SectionBlocks,
                 palette_insert(Air, [map |-> <<>>, list |-> <<>>]))

(***************************************************************************)
(* save_chunk, packing loop (one iteration for block i).                   *)
(***************************************************************************)
\* if current_bit_shift > 64 - bits_per_index  (save_chunk)
pack_word_full_split(shift, bits) == shift >= WordBits
pack_word_full(shift, bits) == shift > WordBits - bits

pack_step(blocks, palette, bits, i, st) ==
    IF ~st.ok \/ st.current_long >= Len(st.data) THEN [st EXCEPT !.ok = FALSE]
    ELSE
    LET word    == st.data[st.current_long + 1]
        placed  == word \cup Shl(BitsOf(palette[blocks[i]]), st.current_bit_shift)
        data1   == [st.data EXCEPT ![st.current_long + 1] = placed]
        shift1  == st.current_bit_shift + bits
    IN  IF pack_word_full(shift1, bits)
        THEN [ok |-> TRUE,
              data |-> IF (i < SectionBlocks - 1) \/ (WordBits % bits # 0)
                       THEN Append(data1, {}) ELSE data1,
              current_long |-> st.current_long + 1,
              current_bit_shift |-> 0]
        ELSE [ok |-> TRUE, data |-> data1,
              current_long |-> st.current_long,
              current_bit_shift |-> shift1]

RECURSIVE pack_loop(_, _, _, _, _, _)
pack_loop(blocks, palette, bits, lo, hi, st) ==
    IF lo >= hi THEN st
    ELSE IF hi = lo + 1 THEN pack_step(blocks, palette, bits, lo, st)
    ELSE LET mid  == (lo + hi) \div 2
             left == pack_loop(blocks, palette, bits, lo, mid, st)
         IN  IF ~left.ok THEN left
             ELSE pack_loop(blocks, palette, bits, mid, hi, left)

\* the block_states compound of one section: palette (before to_nbt) and data
encode_section(blocks) ==
    LET palette == build_palette(blocks)
        bits    == bits_per_index(Cardinality(DOMAIN palette.map))
        packed  == pack_loop(blocks, palette.map, bits, 0, SectionBlocks,
                             [ok |-> TRUE, data |-> <<{}>>,
                              current_long |-> 0, current_bit_shift |-> 0])
    IN  [ok |-> packed.ok, palette |-> palette.list, data |-> packed.data]

(***************************************************************************)
(* load_chunk, unpacking loop.  palette is the Vec<Block> (after from_nbt) *)
(* and indices the i64 array; an index out of either Vec panics.           *)
(***************************************************************************)
\* if current_bit_shift > (64 - bits_per_index)  (load_chunk)
unpack_word_full_early(shift, bits) == shift >= WordBits - bits
unpack_word_full(shift, bits) == shift > WordBits - bits

unpack_step(palette, indices, bits, i, st) ==
    IF ~st.ok \/ st.current_long >= Len(indices) THEN [st EXCEPT !.ok = FALSE]
    ELSE
    LET packed == indices[st.current_long + 1]
        index  == ToNat(LowBits(Shr(packed, st.current_bit_shift), bits))
        shift1 == st.current_bit_shift + bits
        wrap   == unpack_word_full(shift1, bits)
    IN  IF index >= Len(palette) THEN [st EXCEPT !.ok = FALSE]
        ELSE [ok |-> TRUE,
              blocks |-> [st.blocks EXCEPT ![i] = palette[index + 1]],
              current_long |-> IF wrap THEN st.current_long + 1 ELSE st.current_long,
              current_bit_shift |-> IF wrap THEN 0 ELSE shift1]

RECURSIVE unpack_loop(_, _, _, _, _, _)
unpack_loop(palette, indices, bits, lo, hi, st) ==
    IF lo >= hi THEN st
    ELSE IF hi = lo + 1 THEN unpack_step(palette, indices, bits, lo, st)
    ELSE LET mid  == (lo + hi) \div 2
             left == unpack_loop(palette, indices, bits, lo, mid, st)
         IN  IF ~left.ok THEN left
             ELSE unpack_loop(palette, indices, bits, mid, hi, left)

\* Section::default(): every block Air
default_section == [i \in 0..(SectionBlocks - 1) |-> Air]

decode_section(palette, indices) ==
    LET st == unpack_loop(palette, indices, bits_per_index(Len(palette)),
                          0, SectionBlocks,
                          [ok |-> TRUE, blocks |-> default_section,
                           current_long |-> 0, current_bit_shift |-> 0])
    IN  [ok |-> st.ok, blocks |-> st.blocks]

(***************************************************************************)
(* Codec harness: a section is encoded as save_chunk does, the packed      *)
(* words may get their padding bits set by another writer, and the record  *)
(* is decoded as load_chunk does.                                          *)
(***************************************************************************)
\* palette sizes that exercise every index width from 4 to 13 bits
SectionKinds == {16, 17, 33, 65, 129, 257, 513, 1025, 2049, 4096}
MaxStride == 1

opaque(k) == IF k = 0 THEN Air ELSE Other(Blockstate(ToString(k), <<>>))

\* a section cycling through n block values; base 1 leaves Air out
section_of(n, stride, base) ==
    [i \in 0..(SectionBlocks - 1) |-> opaque(base + ((i * stride) % n))]

per_word(bits) == WordBits \div bits
padding(bits) == (per_word(bits) * bits)..(WordBits - 1)

\* the variables of a harness that takes no part in a specification
CodecIdle == cpc = "idle" /\ section = <<>> /\ block_states = None /\ loaded = None
BlockIdle ==
    /\ bpc = "idle" /\ era = "none" /\ named_state = None
    /\ block_read = None /\ encoded = None /\ block_reread = None

InternIdle == lock = 0 /\ worker = <<>> /\ returned = {}

ChunkIdle ==
    /\ kpc = "idle" /\ chunk_file = <<>> /\ sections = <<>>
    /\ heightmap = <<>> /\ watermap = <<>> /\ probe = None

WindowIdle ==
    /\ wpc = "idle" /\ LOAD_MARGIN = 0 /\ requested = None
    /\ chunk_min = None /\ chunk_max = None /\ chunks_loaded = <<>>
    /\ reported = None /\ written = <<>> /\ level_dat = None

FnIdle == fpc = "idle" /\ fn_arg = None /\ fn_ret = None

AccessIdle == biome = <<>> /\ overflow_checks = FALSE /\ calls = 0

SaveIdle == entities = <<>> /\ entities_chunked = <<>> /\ cursor = 0 /\ region = <<>>

RotIdle == rotated_block = None /\ turns_applied = <<>>

LoadIdle == loading = <<>> /\ touched = {}

AssignIdle == apc = "idle" /\ villager_pos = <<>> /\ jobless = {} /\ lumberworker = <<>> /\ new_built = <<>> /\ built_passed = 0 /\ commands = <<>>

CodecInit ==
    /\ cpc = "section"
    /\ \E n \in SectionKinds, stride \in 1..MaxStride, base \in {0, 1} :
           section = section_of(n, stride, base)
    /\ block_states = None
    /\ loaded = None
    /\ BlockIdle
    /\ InternIdle
    /\ ChunkIdle
    /\ WindowIdle
    /\ FnIdle /\ AccessIdle /\ SaveIdle /\ RotIdle /\ LoadIdle /\ AssignIdle
    /\ UNKNOWN_BLOCKS = UnknownBlocks(0)

Encode ==
    /\ cpc = "section"
    /\ block_states' = encode_section(section)
    /\ cpc' = "encoded"
    /\ UNCHANGED <<section, loaded, block_vars, intern_vars, chunk_vars, window_vars, fn_vars, UNKNOWN_BLOCKS,
                   access_vars, save_vars, rot_vars, load_vars, assign_vars>>

\* the padding bits of word w are set
Pad ==
    /\ cpc = "encoded"
    /\ \E w \in {1, Len(block_states.data)} :
           LET pad == padding(bits_per_index(Len(block_states.palette)))
           IN  /\ pad # {}
               /\ ~(pad \subseteq block_states.data[w])
               /\ block_states' = [block_states EXCEPT !.data[w] = @ \cup pad]
    /\ UNCHANGED <<cpc, section, loaded, block_vars, intern_vars, chunk_vars, window_vars, fn_vars, UNKNOWN_BLOCKS,
                   access_vars, save_vars, rot_vars, load_vars, assign_vars>>

Decode ==
    /\ cpc = "encoded"
    /\ loaded' = decode_section(block_states.palette, block_states.data)
    /\ cpc' = "decoded"
    /\ UNCHANGED <<section, block_states, block_vars, intern_vars, chunk_vars, window_vars, fn_vars, UNKNOWN_BLOCKS,
                   access_vars, save_vars, rot_vars, load_vars, assign_vars>>

CodecNext == Encode \/ Pad \/ Decode

SpecCodec == CodecInit /\ [][CodecNext]_vars

\* C1: decoding what save_chunk's encoder produced rebuilds the section.
PaletteRoundTrip ==
    cpc = "decoded" => loaded.ok /\ loaded.blocks = section

PaletteRoundTripWitness ==
    /\ cpc = "decoded"
    /\ Len(block_states.palette) > 16
    /\ loaded.blocks = section
    /\ \E i \in DOMAIN section : section[i] # Air

\* the palette index the layout of C10 assigns to block i of the section
layout_index(data, bits, i) ==
    LET p == per_word(bits)
    IN  ToNat(LowBits(Shr(data[(i \div p) + 1], (i % p) * bits), bits))

LayoutOfIndices ==
    cpc \in {"encoded", "decoded"} =>
        LET bits == bits_per_index(Len(block_states.palette))
        IN  \A i \in 0..(SectionBlocks - 1) :
                /\ (i \div per_word(bits)) + 1 <= Len(block_states.data)
                /\ layout_index(block_states.data, bits, i) < Len(block_states.palette)
                /\ block_states.palette[layout_index(block_states.data, bits, i) + 1]
                       = section[i]

ZeroPadding(bs) ==
    \A w \in 1..Len(bs.data) :
        bs.data[w] \cap padding(bits_per_index(Len(bs.palette))) = {}

\* C10: index i lies in bits (i mod p)*b .. (i mod p)*b + b - 1 of word
\* floor(i/p), the encoder leaves the padding bits zero, and the decoder
\* returns the section whatever the padding bits hold.
NonSplittingLayout ==
    /\ [](LayoutOfIndices)
    /\ [][cpc = "section" => ZeroPadding(block_states')]_vars
    /\ [](cpc = "decoded" => loaded.ok /\ loaded.blocks = section)

NonSplittingLayoutWitness ==
    /\ cpc = "decoded"
    /\ bits_per_index(Len(block_states.palette)) = 5
    /\ padding(5) \subseteq block_states.data[1]
    /\ loaded.blocks = section

RECURSIVE highest_index(_, _, _, _, _)
\* the highest palette index among blocks 0..hi-1 when every block lo..hi-1
\* has an index at most one above those before it (top being the highest
\* among 0..lo-1), and -1 otherwise
highest_index(data, bits, lo, hi, top) ==
    IF top < 0 \/ lo >= hi THEN top
    ELSE IF hi = lo + 1
    THEN LET index == layout_index(data, bits, lo)
         IN  IF index > top + 1 THEN -1 ELSE IF index > top THEN index ELSE top
    ELSE highest_index(data, bits, (lo + hi) \div 2, hi,
                       highest_index(data, bits, lo, (lo + hi) \div 2, top))

\* C24: the palette starts with Air whether or not the section has any,
\* holds no block twice, holds the blocks of the section in the order in
\* which they first occur and nothing else, and each block's index is its
\* place in the palette.
PaletteIsFirstOccurrenceList ==
    cpc \in {"encoded", "decoded"} =>
        /\ block_states.palette[1] = Air
        /\ Cardinality({block_states.palette[k] : k \in 1..Len(block_states.palette)})
               = Len(block_states.palette)
        /\ {block_states.palette[k] : k \in 1..Len(block_states.palette)}
               = {Air} \cup {section[i] : i \in DOMAIN section}
        /\ LayoutOfIndices
        /\ highest_index(block_states.data, bits_per_index(Len(block_states.palette)),
                         0, SectionBlocks, 0) = Len(block_states.palette) - 1

\* a section without Air and with 129 different blocks was encoded
PaletteIsFirstOccurrenceListWitness ==
    /\ cpc = "encoded"
    /\ Len(block_states.palette) = 130
    /\ \A i \in DOMAIN section : section[i] # Air
    /\ block_states.palette[2] = section[0]

\* C26: the packed array has ceil(4096 / floor(64 / bits)) words for every
\* palette size, and no empty word after them.
NoTrailingWord ==
    cpc \in {"encoded", "decoded"} =>
        Len(block_states.data)
            = (SectionBlocks + per_word(bits_per_index(Len(block_states.palette))) - 1)
                  \div per_word(bits_per_index(Len(block_states.palette)))

(***************************************************************************)
(* The named-state round trip of a palette entry: from_nbt, to_nbt,        *)
(* from_nbt, in either block module.                                       *)
(***************************************************************************)
Eras == {"world", "level"}

\* the property lists of the palette entries tried
PropLists ==
    {<<>>, <<<<"variant", "coarse_dirt">>>>, <<<<"variant", "podzol">>>>,
     <<<<"layers", "3">>>>, <<<<"persistent", "true">>>>}
    \cup {<<<<"type", t>>>> : t \in {"top", "bottom", "double"}}
    \cup {<<<<"axis", a>>>> : a \in {"x", "y", "z", "none"}}
    \cup {<<<<"level", l>>>> : l \in {"0", "1", "3", "4", "15"}}
    \cup {<<<<"persistent", "false">>, <<"distance", d>>>> : d \in {"1", "7"}}
    \cup {<<<<"half", h>>>> : h \in {"upper", "lower"}}
    \cup {<<<<"facing", f>>>> : f \in HDirs}
    \cup {<<<<"facing", f>>, <<"half", h>>>> :
              f \in {"north", "west"}, h \in {"top", "bottom"}}
    \cup {<<<<"facing", f>>, <<"attachment", a>>>> :
              f \in {"south"}, a \in {"floor", "ceiling", "single_wall", "double_wall"}}
    \cup {<<<<"facing", f>>, <<"half", h>>, <<"open", o>>>> :
              f \in {"east"}, h \in {"top", "bottom", "upper", "lower"},
              o \in {"true", "false"}}

\* every name a known_block arm matches, and one that none matches
Names ==
    DOMAIN plain_blocks \cup DOMAIN level_plain_blocks \cup DOMAIN level_log_species
    \cup DOMAIN leaves_species \cup DOMAIN tall_plant_kind
    \cup DOMAIN level_slab_material \cup DOMAIN level_stair_material
    \cup DOMAIN banner_color
    \cup {"water", "dirt", "stripped_oak_log", "cauldron", "oak_trapdoor",
          "spruce_trapdoor", "oak_door", "spruce_door", "bell", "ladder",
          "oak_fence"}

\* Block::from_nbt of the era: the Block and the registry afterwards
decode(e, nbt, unknown) ==
    IF e = "level" THEN level_from_nbt(nbt, unknown)
    ELSE [block |-> from_nbt(nbt), unknown |-> unknown]

\* Block::to_nbt of the era
encode(e, b, unknown) ==
    IF e = "level" THEN level_to_nbt(b, unknown) ELSE to_nbt(b)

\* S is matched by an arm of the era's known_block, which builds a Block
recognized(e, nbt) ==
    decode(e, nbt, UnknownBlocks(0)).block[1] \notin {"Other", "!panic"}

BlockInit ==
    /\ bpc = "named"
    /\ era \in Eras
    /\ \E name \in Names, prefix \in {"", "minecraft:"}, props \in PropLists :
           named_state = Nbt(prefix \o name, IF props = <<>> THEN None ELSE Some(props))
    /\ recognized(era, named_state)
    /\ block_read = None /\ encoded = None /\ block_reread = None
    /\ UNKNOWN_BLOCKS = UnknownBlocks(0)
    /\ CodecIdle
    /\ InternIdle
    /\ ChunkIdle
    /\ WindowIdle
    /\ FnIdle /\ AccessIdle /\ SaveIdle /\ RotIdle /\ LoadIdle /\ AssignIdle

DecodeState ==
    /\ bpc = "named"
    /\ block_read' = decode(era, named_state, UNKNOWN_BLOCKS).block
    /\ UNKNOWN_BLOCKS' = decode(era, named_state, UNKNOWN_BLOCKS).unknown
    /\ bpc' = "decoded"
    /\ UNCHANGED <<era, named_state, encoded, block_reread, codec_vars, intern_vars, chunk_vars, window_vars, fn_vars,
                   access_vars, save_vars, rot_vars, load_vars, assign_vars>>

\* to_nbt; a panic of blockstate() ends the run
EncodeBlock ==
    /\ bpc = "decoded"
    /\ encoded' = encode(era, block_read, UNKNOWN_BLOCKS)
    /\ bpc' = IF encode(era, block_read, UNKNOWN_BLOCKS) = PanicState
              THEN "panicked" ELSE "encoded"
    /\ UNCHANGED <<era, named_state, block_read, block_reread, UNKNOWN_BLOCKS, codec_vars, intern_vars, chunk_vars, window_vars, fn_vars,
                   access_vars, save_vars, rot_vars, load_vars, assign_vars>>

DecodeAgain ==
    /\ bpc = "encoded"
    /\ block_reread' = decode(era, encoded, UNKNOWN_BLOCKS).block
    /\ UNKNOWN_BLOCKS' = decode(era, encoded, UNKNOWN_BLOCKS).unknown
    /\ bpc' = "again"
    /\ UNCHANGED <<era, named_state, block_read, encoded, codec_vars, intern_vars, chunk_vars, window_vars, fn_vars,
                   access_vars, save_vars, rot_vars, load_vars, assign_vars>>

BlockNext == DecodeState \/ EncodeBlock \/ DecodeAgain

SpecBlock == BlockInit /\ [][BlockNext]_vars

\* the named state is a cauldron whose level is a number above 3
cauldron_above_3(nbt) ==
    /\ strip_prefix(nbt.Name) = "cauldron"
    /\ nbt.Properties # None
    /\ get_str(nbt.Properties[2], "level")[1] = "Ok"
    /\ parse_u8(get_str(nbt.Properties[2], "level")[2])[1] = "Ok"
    /\ parse_u8(get_str(nbt.Properties[2], "level")[2])[2] > 3

\* C16: from_nbt on a cauldron state with a level above 3 aborts: it returns
\* no Block.
OutOfDomainLevelAborts ==
    (bpc \in {"decoded", "encoded", "again", "panicked"} /\ cauldron_above_3(named_state))
        => block_read = PanicBlock

\* C17: blockstate() returns a named state without panicking for every Block,
\* among them every Block from_nbt returns.
EncodeIsTotal == bpc # "panicked"

\* C2: for every named state S that known_block recognizes,
\* decode(encode(decode(S))) = decode(S): the Block decoded from the written
\* entry is the Block that was written.
KnownStateRoundTrip == bpc = "again" => block_reread = block_read

(***************************************************************************)
(* Load workers interning unknown states: Block::from_nbt (level/block.rs) *)
(* step by step around the write lock of UNKNOWN_BLOCKS, and               *)
(* debug_read_unknown under its read lock.                                 *)
(***************************************************************************)
Workers == {1, 2}
\* from_nbt calls of all workers together
MaxDecodes == 3
\* states interned before the workers start
MaxInterned == 65536

\* the palette entries the workers meet
InternInputs ==
    {Nbt("minecraft:stone", None),
     Nbt("minecraft:unknown_0", None),
     Nbt("minecraft:lantern", Some(<<<<"hanging", "true">>>>)),
     Nbt("torch", None)}

\* the Blockstate from_nbt builds of an entry no known_block arm matches
built_state(nbt) == Blockstate(strip_prefix(nbt.Name), nbt_props(nbt))

\* THREAD_PALETTE: nothing is ever inserted into it
THREAD_PALETTE == <<>>

\* the write lock is not exclusive
can_write_shared(holder) == TRUE

\* RwLock::write can return
can_write(holder) == holder = 0

\* RwLock::read can return
can_read(holder) == holder = 0

decodes == Cardinality({w \in Workers : worker[w].pc # "idle"}) + worker[1].calls + worker[2].calls

InternInit ==
    /\ lock = 0
    /\ worker = [w \in Workers |->
                    [pc |-> "idle", nbt |-> None, index |-> 0, unseen |-> FALSE,
                     result |-> None, resolved |-> None, calls |-> 0]]
    /\ returned = {}
    /\ \E interned \in {0, MaxInterned} : UNKNOWN_BLOCKS = UnknownBlocks(interned)
    /\ CodecIdle
    /\ BlockIdle
    /\ ChunkIdle
    /\ WindowIdle
    /\ FnIdle /\ AccessIdle /\ SaveIdle /\ RotIdle /\ LoadIdle /\ AssignIdle

\* from_nbt up to the write lock: a known block returns at once
BuildState(w, nbt) ==
    LET known == level_known_block(strip_prefix(nbt.Name), nbt_props(nbt)) IN
    /\ worker[w].pc = "idle"
    /\ decodes < MaxDecodes
    /\ worker' = [worker EXCEPT ![w] =
           IF known # None
           THEN [@ EXCEPT !.nbt = nbt, !.result = known[2], !.resolved = None,
                          !.calls = @ + 1]
           ELSE IF built_state(nbt) \in DOMAIN THREAD_PALETTE
           THEN [@ EXCEPT !.nbt = nbt, !.resolved = None, !.calls = @ + 1,
                          !.result = <<"Other", THREAD_PALETTE[built_state(nbt)]>>]
           ELSE [@ EXCEPT !.pc = "write", !.nbt = nbt, !.result = None,
                          !.resolved = None,
                          !.unseen = map_get(UNKNOWN_BLOCKS, built_state(nbt)) = None]]
    /\ UNCHANGED <<lock, returned, UNKNOWN_BLOCKS, codec_vars, block_vars, chunk_vars, window_vars, fn_vars,
                   access_vars, save_vars, rot_vars, load_vars, assign_vars>>

\* let mut unknown_blocks = UNKNOWN_BLOCKS.write().unwrap()
Write(w) ==
    /\ worker[w].pc = "write"
    /\ can_write(lock)
    /\ lock' = w
    /\ worker' = [worker EXCEPT ![w].pc = "get"]
    /\ UNCHANGED <<returned, UNKNOWN_BLOCKS, codec_vars, block_vars, chunk_vars, window_vars, fn_vars,
                   access_vars, save_vars, rot_vars, load_vars, assign_vars>>

\* unknown_blocks.map.get(&blockstate), else states.len() as u16
MapGet(w) ==
    LET found == map_get(UNKNOWN_BLOCKS, built_state(worker[w].nbt)) IN
    /\ worker[w].pc = "get"
    /\ worker' = [worker EXCEPT ![w] =
           IF found # None THEN [@ EXCEPT !.pc = "unlock", !.index = found[2]]
           ELSE [@ EXCEPT !.pc = "insert",
                          !.index = states_len(UNKNOWN_BLOCKS) % U16]]
    /\ UNCHANGED <<lock, returned, UNKNOWN_BLOCKS, codec_vars, block_vars, chunk_vars, window_vars, fn_vars,
                   access_vars, save_vars, rot_vars, load_vars, assign_vars>>

MapInsert(w) ==
    /\ worker[w].pc = "insert"
    /\ UNKNOWN_BLOCKS' =
           map_insert(UNKNOWN_BLOCKS, built_state(worker[w].nbt), worker[w].index)
    /\ worker' = [worker EXCEPT ![w].pc = "push"]
    /\ UNCHANGED <<lock, returned, codec_vars, block_vars, chunk_vars, window_vars, fn_vars,
                   access_vars, save_vars, rot_vars, load_vars, assign_vars>>

StatesPush(w) ==
    /\ worker[w].pc = "push"
    /\ UNKNOWN_BLOCKS' = states_push(UNKNOWN_BLOCKS, built_state(worker[w].nbt))
    /\ worker' = [worker EXCEPT ![w].pc = "unlock"]
    /\ UNCHANGED <<lock, returned, codec_vars, block_vars, chunk_vars, window_vars, fn_vars,
                   access_vars, save_vars, rot_vars, load_vars, assign_vars>>

\* the guard is dropped and from_nbt returns Other(index)
Unlock(w) ==
    /\ worker[w].pc = "unlock"
    /\ lock' = 0
    /\ worker' = [worker EXCEPT ![w] =
           [@ EXCEPT !.pc = "idle", !.result = <<"Other", worker[w].index>>,
                     !.calls = @ + 1]]
    /\ returned' = returned \cup {<<built_state(worker[w].nbt), worker[w].index>>}
    /\ UNCHANGED <<UNKNOWN_BLOCKS, codec_vars, block_vars, chunk_vars, window_vars, fn_vars,
                   access_vars, save_vars, rot_vars, load_vars, assign_vars>>

\* debug_read_unknown(index) of the Other block the worker got last
ReadUnknown(w) ==
    /\ worker[w].pc = "idle"
    /\ worker[w].result # None
    /\ worker[w].result[1] = "Other"
    /\ worker[w].resolved = None
    /\ can_read(lock)
    /\ worker' = [worker EXCEPT ![w].resolved =
                      Some(states_get(UNKNOWN_BLOCKS, worker[w].result[2]))]
    /\ UNCHANGED <<lock, returned, UNKNOWN_BLOCKS, codec_vars, block_vars, chunk_vars, window_vars, fn_vars,
                   access_vars, save_vars, rot_vars, load_vars, assign_vars>>

InternNext ==
    \E w \in Workers :
        \/ \E nbt \in InternInputs : BuildState(w, nbt)
        \/ Write(w)
        \/ MapGet(w)
        \/ MapInsert(w)
        \/ StatesPush(w)
        \/ Unlock(w)
        \/ ReadUnknown(w)

SpecIntern == InternInit /\ [][InternNext]_vars

\* how many entries of the registry's states hold `state`
entries_of(state) ==
    Cardinality({k \in 1..Len(UNKNOWN_BLOCKS.states) : UNKNOWN_BLOCKS.states[k] = state})
    + (IF interned_index(state, UNKNOWN_BLOCKS.interned) # None THEN 1 ELSE 0)

\* C7: every from_nbt call on one unknown state returns the same Other(index),
\* also when two workers decode a not-yet-seen state at the same time, and the
\* state has exactly one registry entry once a call on it has returned.
InterningConverges ==
    /\ \A r1 \in returned, r2 \in returned : r1[1] = r2[1] => r1[2] = r2[2]
    /\ \A r \in returned : entries_of(r[1]) = 1

\* both workers built the same state while the registry did not hold it, and
\* both calls have returned
InterningConvergesWitness ==
    /\ worker # <<>>
    /\ \A w \in Workers :
           /\ worker[w].pc = "idle" /\ worker[w].unseen
           /\ worker[w].result # None /\ worker[w].result[1] = "Other"
    /\ worker[1].nbt = worker[2].nbt
    /\ worker[1].result = worker[2].result

\* C8: distinct unknown states get distinct indices, however many states the
\* process has interned.
DistinctStatesDistinctIndices ==
    \A r1 \in returned, r2 \in returned : r1[1] # r2[1] => r1[2] # r2[2]

\* C9: the state read back for the Other block a decode returned has the name
\* (without the namespace prefix from_nbt drops) and the properties of the
\* entry decoded.
OpaqueRoundTrip ==
    \A w \in DOMAIN worker :
        worker[w].resolved # None => worker[w].resolved[2] = built_state(worker[w].nbt)

(***************************************************************************)
(* One chunk of the World (world/mod.rs): load_chunk and the queries of    *)
(* WorldView.  Arrays are kept sparse in the variables: a section holds    *)
(* its blocks other than Air, heightmap its entries other than 0 and       *)
(* watermap its entries other than None.                                   *)
(***************************************************************************)
\* slots of a chunk in World.sections; slot = Y + 4
SectionSlots == 24
\* the offset of a section's Y in the slots
SlotOffset == 4
\* load_chunk skips the sections whose Y is not in 0..15 (exclusive)
LoadedSections == 15
\* columns of a chunk along one axis
ChunkWidth == 16

sparse(array, default) ==
    [i \in {k \in DOMAIN array : array[k] # default} |-> array[i]]

at(array, i, default) == IF i \in DOMAIN array THEN array[i] ELSE default

\* Rust's `/` on i32: the quotient truncated towards zero
trunc_div(a, b) == IF a >= 0 THEN a \div b ELSE -((-a) \div b)

\* save_chunk: the record of the section in slot y_index + 4
save_section(y_index, blocks) ==
    LET encoded_section == encode_section(blocks) IN
    [Y |-> y_index,
     palette |-> [k \in 1..Len(encoded_section.palette) |->
                     to_nbt(encoded_section.palette[k])],
     data |-> Some(encoded_section.data)]

\* load_chunk: the Section built from one record; ok is FALSE for a panic
load_section(section_nbt) ==
    LET palette == [k \in 1..Len(section_nbt.palette) |-> from_nbt(section_nbt.palette[k])]
    IN  IF \E k \in 1..Len(palette) : palette[k] = PanicBlock
        THEN [ok |-> FALSE, blocks |-> <<>>]
        ELSE IF section_nbt.data = None THEN [ok |-> TRUE, blocks |-> <<>>]
        ELSE LET decoded == decode_section(palette, section_nbt.data[2])
             IN  [ok |-> decoded.ok, blocks |-> sparse(decoded.blocks, Air)]

\* load_chunk: the slots after the loop over sections_nbt
load_sections(sections_nbt) ==
    [slot \in 0..(SectionSlots - 1) |->
        LET records == {k \in 1..Len(sections_nbt) :
                            /\ sections_nbt[k].Y \in 0..(LoadedSections - 1)
                            /\ sections_nbt[k].Y + SlotOffset = slot}
        IN  IF records = {} THEN None
            ELSE Some(load_section(
                     sections_nbt[CHOOSE k \in records : \A j \in records : j <= k]))]

\* match block { Block::Log(..) => false, _ => block.solid() }
ground(b) == IF b[1] = "Log" THEN FALSE ELSE solid(b)

\* load_chunk: "Build water- & heightmap" for column x, z.  cells are the
\* <<section_index, y>> the two loops visit, from the top down.
column_scan(slots, x, z) ==
    LET cells == {c \in ((-SlotOffset)..(SectionSlots - SlotOffset - 1)) \X (0..15) :
                      slots[c[1] + SlotOffset] # None}
        rank(c) == c[1] * 16 + c[2]
        cell_block(c) ==
            at(slots[c[1] + SlotOffset][2], x + z * 16 + c[2] * 16 * 16, Air)
        stops == {c \in cells : ground(cell_block(c))}
        stop == CHOOSE c \in stops : \A d \in stops : rank(d) <= rank(c)
        visited == IF stops = {} THEN cells
                   ELSE {c \in cells : rank(c) > rank(stop)}
        waters == {c \in visited : cell_block(c) = <<"Water">>}
        water == CHOOSE c \in waters : \A d \in waters : rank(d) <= rank(c)
    IN  [height |-> IF stops = {} THEN 0 ELSE (stop[1] - 4) * 16 + stop[2],
         water |-> IF waters = {} THEN None ELSE Some(water[1] * 16 + water[2])]

\* load_chunk on the sections list of a chunk record
load_chunk(sections_nbt) ==
    LET loaded_slots == load_sections(sections_nbt)
        ok == \A slot \in DOMAIN loaded_slots :
                  loaded_slots[slot] = None \/ loaded_slots[slot][2].ok
        slots == [slot \in DOMAIN loaded_slots |->
                     IF loaded_slots[slot] = None THEN None
                     ELSE Some(loaded_slots[slot][2].blocks)]
        scans == [i \in 0..(ChunkWidth * ChunkWidth - 1) |->
                     column_scan(slots, i % 16, i \div 16)]
    IN  IF ~ok THEN [ok |-> FALSE, sections |-> <<>>, heightmap |-> <<>>, watermap |-> <<>>]
        ELSE [ok |-> TRUE, sections |-> slots,
              heightmap |-> sparse([i \in DOMAIN scans |-> scans[i].height], 0),
              watermap |-> sparse([i \in DOMAIN scans |-> scans[i].water], None)]

\* World::section_index within the chunk: pos.1 / 16 + 4
section_index(y) == trunc_div(y, 16) + SlotOffset

\* World::block_in_section_index
block_in_section_index(x, y, z) == (x % 16) + (y % 16) * 16 * 16 + (z % 16) * 16

\* World::column_index within the chunk
column_index(x, z) == (x % 16) + (z % 16) * 16

\* <World as WorldView>::get; PanicBlock when the slot is out of the Vec
get(slots, x, y, z) ==
    IF section_index(y) \notin DOMAIN slots THEN PanicBlock
    ELSE IF slots[section_index(y)] = None THEN Air
    ELSE at(slots[section_index(y)][2], block_in_section_index(x, y, z), Air)

\* the y of the ground of the chunks tried: in section 0, 3 and 15
GroundLevels == {0, 60, 250}
\* the columns queried are 0..MaxProbe in x and in z
MaxProbe == 3

\* a chunk with ground at y: column 0,0 has soil, a floating log and leaves;
\* 1,0 soil under water; 2,0 a log alone; 0,1 water alone; 1,1 stone and
\* nothing else is not Air
terrain(y0, x, y, z) ==
    CASE <<x, z>> = <<0, 0>> /\ y = y0 -> <<"Soil", "Dirt">>
      [] <<x, z>> = <<0, 0>> /\ y \in {y0 + 10, y0 + 11} ->
            <<"Log", "Oak", <<"Normal", "Y">>>>
      [] <<x, z>> = <<0, 0>> /\ y = y0 + 12 -> <<"Leaves", "Oak">>
      [] <<x, z>> = <<1, 0>> /\ y = y0 -> <<"Soil", "Sand">>
      [] <<x, z>> = <<1, 0>> /\ y \in (y0 + 1)..(y0 + 3) -> <<"Water">>
      [] <<x, z>> = <<2, 0>> /\ y = y0 + 5 -> <<"Log", "Birch", <<"FullBark">>>>
      [] <<x, z>> = <<0, 1>> /\ y = y0 + 2 -> <<"Water">>
      [] <<x, z>> = <<1, 1>> /\ y = y0 + 17 -> <<"FullBlock", Mat("Stone")>>
      [] OTHER -> Air

\* Section.blocks of section y_index of that chunk
terrain_section(y0, y_index) ==
    [i \in 0..(SectionBlocks - 1) |->
        terrain(y0, i % 16, y_index * 16 + i \div 256, (i % 256) \div 16)]

\* the sections save_chunk writes for that chunk: those that were set into
saved_sections(y0) ==
    LET first == y0 \div 16 IN
    <<save_section(first, terrain_section(y0, first)),
      save_section(first + 1, terrain_section(y0, first + 1))>>

\* the same sections with the names as the game writes them
namespaced(sections_nbt) ==
    [k \in 1..Len(sections_nbt) |->
        [Y |-> sections_nbt[k].Y,
         palette |-> [j \in 1..Len(sections_nbt[k].palette) |->
                         Nbt("minecraft:" \o sections_nbt[k].palette[j].Name,
                             sections_nbt[k].palette[j].Properties)],
         data |-> sections_nbt[k].data]]

\* chunks with a section of one state only, which the game writes as a
\* palette of one entry without a data array
single_state_sections ==
    {<<[Y |-> y_index, palette |-> <<Nbt(name, None)>>, data |-> None]>> :
         y_index \in {0, 3}, name \in {"stone", "minecraft:dirt", "air"}}

ChunkInit ==
    /\ kpc = "file"
    /\ \/ \E y0 \in GroundLevels, named \in BOOLEAN :
              chunk_file = IF named THEN namespaced(saved_sections(y0))
                           ELSE saved_sections(y0)
       \/ chunk_file \in single_state_sections
    /\ sections = [slot \in 0..(SectionSlots - 1) |-> None]
    /\ heightmap = <<>>
    /\ watermap = <<>>
    /\ probe = None
    /\ UNKNOWN_BLOCKS = UnknownBlocks(0)
    /\ CodecIdle /\ BlockIdle /\ InternIdle /\ WindowIdle /\ FnIdle /\ AccessIdle /\ SaveIdle /\ RotIdle /\ LoadIdle /\ AssignIdle

LoadChunk ==
    /\ kpc = "file"
    /\ \E chunk \in {load_chunk(chunk_file)} :
           /\ kpc' = IF chunk.ok THEN "loaded" ELSE "panicked"
           /\ sections' = IF chunk.ok THEN chunk.sections ELSE sections
           /\ heightmap' = chunk.heightmap
           /\ watermap' = chunk.watermap
    /\ UNCHANGED <<chunk_file, probe, codec_vars, block_vars, intern_vars,
                   window_vars, fn_vars, UNKNOWN_BLOCKS, access_vars, save_vars, rot_vars,
                   load_vars, assign_vars>>

\* height(column), water_level(column) and get(column.at(height(column)))
Probe(x, z) ==
    /\ kpc = "loaded"
    /\ probe' = Some([column |-> <<x, z>>,
                      height |-> at(heightmap, column_index(x, z), 0),
                      water_level |-> at(watermap, column_index(x, z), None),
                      block |-> get(sections, x, at(heightmap, column_index(x, z), 0), z)])
    /\ UNCHANGED <<kpc, chunk_file, sections, heightmap, watermap,
                   codec_vars, block_vars, intern_vars, window_vars, fn_vars, UNKNOWN_BLOCKS,
                   access_vars, save_vars, rot_vars, load_vars, assign_vars>>

ChunkNext == LoadChunk \/ \E x \in 0..MaxProbe, z \in 0..MaxProbe : Probe(x, z)

SpecChunk == ChunkInit /\ [][ChunkNext]_vars

\* the y range the 24 slots of a chunk hold
WorldYs == (-(SlotOffset * 16))..((SectionSlots - SlotOffset) * 16 - 1)

\* C3: after load_chunk, height(column) is the y of the topmost block of the
\* column that is solid and not a log: get(column.at(height(column))) is such
\* a block and no block above it is; a column without such a block has a
\* height that is not above 0.
HeightIsTopGround ==
    (kpc = "loaded" /\ probe # None) =>
        LET x == probe[2].column[1]
            z == probe[2].column[2]
        IN  IF \E y \in WorldYs : ground(get(sections, x, y, z))
            THEN /\ ground(probe[2].block)
                 /\ \A y \in WorldYs :
                        y > probe[2].height => ~ground(get(sections, x, y, z))
            ELSE probe[2].height <= 0

\* C27: every section of the chunk record whose Y is one of the 24 slots
\* (-4..19) is decoded into slot Y + 4, which is the slot get() reads for the
\* y of that section; only the sections outside -4..19 are skipped.
SupportedSectionsLoaded ==
    kpc = "loaded" =>
        \A k \in 1..Len(chunk_file) :
            IF chunk_file[k].Y \in (-SlotOffset)..(SectionSlots - SlotOffset - 1)
            THEN /\ sections[chunk_file[k].Y + SlotOffset] # None
                 /\ chunk_file[k].Y >= 0 =>
                        \A y \in {chunk_file[k].Y * 16, chunk_file[k].Y * 16 + 15} :
                            section_index(y) = chunk_file[k].Y + SlotOffset
            ELSE \A slot \in DOMAIN sections : sections[slot] = None

\* C29: a section with a palette of one state and no data array is loaded
\* as 4096 blocks of that state, and the scan takes them for the column.
SingleStateSectionFilled ==
    (kpc = "loaded" /\ probe # None) =>
        \A k \in 1..Len(chunk_file) :
            (chunk_file[k].data = None /\ Len(chunk_file[k].palette) = 1) =>
                /\ \A y \in {chunk_file[k].Y * 16, chunk_file[k].Y * 16 + 15} :
                       get(sections, probe[2].column[1], y, probe[2].column[2])
                           = from_nbt(chunk_file[k].palette[1])
                /\ ground(from_nbt(chunk_file[k].palette[1])) =>
                       /\ ground(probe[2].block)
                       /\ get(sections, probe[2].column[1], chunk_file[k].Y * 16 + 15,
                              probe[2].column[2]) = probe[2].block

\* the block is the game's water: Block::Water, or what from_nbt made of the
\* state named water
fluid(b) == b = <<"Water">> \/ (b[1] = "Other" /\ b[2].name = "water")

\* the ys of column x, z at which a fluid block lies with no solid block that
\* is neither a log nor a fluid above it
fluid_above_ground(x, z) ==
    {y \in WorldYs :
        /\ fluid(get(sections, x, y, z))
        /\ \A above \in WorldYs :
               above > y => \/ ~ground(get(sections, x, above, z))
                            \/ fluid(get(sections, x, above, z))}

\* C14: after load_chunk, water_level(column) is Some(y) for the topmost fluid
\* block of the column above its ground, and None when there is none; a
\* column with the game's water above its ground has a water level.
WaterLevelIsTopFluid ==
    (kpc = "loaded" /\ probe # None /\ chunk_file # <<>>) =>
        LET ys == fluid_above_ground(probe[2].column[1], probe[2].column[2])
        IN  probe[2].water_level =
                IF ys = {} THEN None
                ELSE Some(CHOOSE y \in ys : \A other \in ys : other <= y)

\* C15: a column with soil at y=60, fluid at y=61..63 and air above has
\* water_level Some(61) and height 60 after the load.
WaterExample ==
    (kpc = "loaded" /\ probe # None /\ chunk_file # <<>>
        /\ chunk_file[1].Y = 3 /\ probe[2].column = <<1, 0>>) =>
        /\ probe[2].water_level = Some(61)
        /\ probe[2].height = 60

(***************************************************************************)
(* The window of a World (world/mod.rs): which chunks World::new loads,    *)
(* what area() reports and which chunks save() writes.  A Column and a     *)
(* ChunkIndex are pairs <<x, z>>.  What a chunk holds is the chunk harness *)
(* above; here a chunk is its index.  geometry.rs and the crate root are   *)
(* outside the files modelled: Rect, the Column -> ChunkIndex conversion   *)
(* and LOAD_MARGIN follow their use in world/mod.rs.                       *)
(***************************************************************************)
Rect(lo, hi) == [min |-> lo, max |-> hi]

\* ChunkIndex::from(Column): the chunk that holds the column
chunk_index_from(column) == <<column[1] \div ChunkWidth, column[2] \div ChunkWidth>>

\* Rect::shrink(amount): every side moved inwards by amount
shrink(rect, amount) ==
    Rect(<<rect.min[1] + amount, rect.min[2] + amount>>,
         <<rect.max[1] - amount, rect.max[2] - amount>>)

\* Rect::center
center(rect) ==
    <<trunc_div(rect.min[1] + rect.max[1], 2), trunc_div(rect.min[2] + rect.max[2], 2)>>

\* World::new: chunk_min and chunk_max for the requested area
window(area_requested, margin) ==
    [chunk_min |-> chunk_index_from(<<area_requested.min[1] - margin,
                                      area_requested.min[2] - margin>>),
     chunk_max |-> chunk_index_from(<<area_requested.max[1] + margin,
                                      area_requested.max[2] + margin>>)]

\* the order World::new and save() walk the chunks in: z outer, x inner
chunk_order(lo, hi) ==
    LET width == hi[1] - lo[1] + 1
        depth == hi[2] - lo[2] + 1
    IN  [k \in 1..(width * depth) |->
            <<lo[1] + ((k - 1) % width), lo[2] + ((k - 1) \div width)>>]

\* Rect { min: Column(chunk_min * 16), max: Column(chunk_max * 16 + 15) }
extent(lo, hi) ==
    Rect(<<lo[1] * 16, lo[2] * 16>>, <<hi[1] * 16 + 15, hi[2] * 16 + 15>>)

\* World::area
area(lo, hi, margin) == shrink(extent(lo, hi), margin)

\* <World as WorldView>::area
view_area(lo, hi) == extent(lo, hi)

\* the same test with the bounds included
is_saved_inclusive(index, lo, hi) ==
    /\ index[1] >= lo[1] /\ index[1] <= hi[1]
    /\ index[2] >= lo[2] /\ index[2] <= hi[2]

\* save(): "Don't save outermost chunks"
is_saved(index, lo, hi) ==
    /\ index[1] > lo[1] /\ index[1] < hi[1]
    /\ index[2] > lo[2] /\ index[2] < hi[2]

\* save(): the indices save_chunk is called on, in order
saved_chunks(lo, hi) ==
    LET keep(index) == is_saved(index, lo, hi)
    IN  SelectSeq(chunk_order(lo, hi), keep)

\* CompoundTag::insert_*
insert(tag, key, value) ==
    [k \in DOMAIN tag \cup {key} |-> IF k = key THEN value ELSE tag[k]]

\* save(): "Edit metadata"
edit_metadata(data, now, spawn) ==
    [data EXCEPT !.LevelName = @ \o " [generated]",
                 !.LastPlayed = now,
                 !.Difficulty = 0,
                 !.GameRules = insert(insert(@, "commandBlockOutput", "false"),
                                      "gameLoopFunction", "mc-gen:loop"),
                 !.SpawnX = spawn[1],
                 !.SpawnZ = spawn[2]]

\* the values of LOAD_MARGIN tried, in columns
Margins == {0, 1, 16, 20}
\* the corners and the sizes of the rectangles requested
Corners == {-17, 0, 8}
Sizes == {1, 16, 40}
\* the readings of the system clock at save()
Clock == {1, 2}

WindowInit ==
    /\ wpc = "request"
    /\ LOAD_MARGIN \in Margins
    /\ \E x \in Corners, z \in Corners, w \in Sizes, d \in Sizes :
           requested = Rect(<<x, z>>, <<x + w - 1, z + d - 1>>)
    /\ chunk_min = None
    /\ chunk_max = None
    /\ chunks_loaded = <<>>
    /\ reported = None
    /\ written = <<>>
    /\ level_dat = [LevelName |-> "world", LastPlayed |-> 0, Difficulty |-> 2,
                    GameRules |-> [k \in {"commandBlockOutput"} |-> "true"],
                    SpawnX |-> 0, SpawnZ |-> 0]
    /\ UNKNOWN_BLOCKS = UnknownBlocks(0)
    /\ CodecIdle /\ BlockIdle /\ InternIdle /\ ChunkIdle /\ FnIdle /\ AccessIdle /\ SaveIdle /\ RotIdle /\ LoadIdle /\ AssignIdle

\* World::new(path, requested)
New ==
    /\ wpc = "request"
    /\ \E opened \in {window(requested, LOAD_MARGIN)} :
           /\ chunk_min' = opened.chunk_min
           /\ chunk_max' = opened.chunk_max
           /\ chunks_loaded' = chunk_order(opened.chunk_min, opened.chunk_max)
    /\ wpc' = "open"
    /\ UNCHANGED <<LOAD_MARGIN, requested, reported, written, level_dat,
                   codec_vars, block_vars, intern_vars, chunk_vars, fn_vars, UNKNOWN_BLOCKS,
                   access_vars, save_vars, rot_vars, load_vars, assign_vars>>

\* world.area(), where world is a World
Area ==
    /\ wpc \in {"open", "saved"}
    /\ reported' = Some([through |-> "World",
                         rect |-> area(chunk_min, chunk_max, LOAD_MARGIN)])
    /\ UNCHANGED <<wpc, LOAD_MARGIN, requested, chunk_min, chunk_max, chunks_loaded,
                   written, level_dat,
                   codec_vars, block_vars, intern_vars, chunk_vars, fn_vars, UNKNOWN_BLOCKS,
                   access_vars, save_vars, rot_vars, load_vars, assign_vars>>

\* world.area(), where world is an impl WorldView
ViewArea ==
    /\ wpc \in {"open", "saved"}
    /\ reported' = Some([through |-> "WorldView",
                         rect |-> view_area(chunk_min, chunk_max)])
    /\ UNCHANGED <<wpc, LOAD_MARGIN, requested, chunk_min, chunk_max, chunks_loaded,
                   written, level_dat,
                   codec_vars, block_vars, intern_vars, chunk_vars, fn_vars, UNKNOWN_BLOCKS,
                   access_vars, save_vars, rot_vars, load_vars, assign_vars>>

\* World::save; World.entities is empty unless generation pushed to it
Save ==
    /\ wpc = "open"
    /\ written' = saved_chunks(chunk_min, chunk_max)
    /\ \E now \in Clock :
           level_dat' = edit_metadata(level_dat, now,
                                      center(area(chunk_min, chunk_max, LOAD_MARGIN)))
    /\ wpc' = "saved"
    /\ UNCHANGED <<LOAD_MARGIN, requested, chunk_min, chunk_max, chunks_loaded, reported,
                   codec_vars, block_vars, intern_vars, chunk_vars, fn_vars, UNKNOWN_BLOCKS,
                   access_vars, save_vars, rot_vars, load_vars, assign_vars>>

WindowNext == New \/ Area \/ ViewArea \/ Save

SpecWindow == WindowInit /\ [][WindowNext]_vars

\* the chunks the World holds
loaded_chunks == {chunks_loaded[k] : k \in 1..Len(chunks_loaded)}

\* the chunks save() wrote
written_chunks == {written[k] : k \in 1..Len(written)}

\* C4: the area() generation logic gets, through WorldView as well as from
\* the World itself, is the loaded extent shrunk by the load margin on every
\* side.
AreaIsShrunkExtent ==
    reported # None =>
        reported[2].rect = shrink(extent(chunk_min, chunk_max), LOAD_MARGIN)

\* chunk c has a column less than LOAD_MARGIN columns from a side of the
\* loaded extent
near_boundary(c) ==
    \/ (c[1] - chunk_min[1]) * 16 < LOAD_MARGIN
    \/ (chunk_max[1] - c[1]) * 16 < LOAD_MARGIN
    \/ (c[2] - chunk_min[2]) * 16 < LOAD_MARGIN
    \/ (chunk_max[2] - c[2]) * 16 < LOAD_MARGIN

\* chunk c has a column inside rect
overlaps(c, rect) ==
    /\ c[1] * 16 <= rect.max[1] /\ c[1] * 16 + 15 >= rect.min[1]
    /\ c[2] * 16 <= rect.max[2] /\ c[2] * 16 + 15 >= rect.min[2]

\* C5: every chunk with a column within LOAD_MARGIN columns of the boundary
\* of the loaded extent has no column in area(), and save() does not write it.
MarginChunksExcluded ==
    wpc \in {"open", "saved"} =>
        \A c \in loaded_chunks :
            near_boundary(c) =>
                /\ ~overlaps(c, area(chunk_min, chunk_max, LOAD_MARGIN))
                /\ c \notin written_chunks

\* C25: every chunk with a column inside World::area() is written by
\* save().  save() leaves out one ring of chunks and area() LOAD_MARGIN
\* columns, so this depends on the value of LOAD_MARGIN.
AreaIsPersisted ==
    wpc = "saved" =>
        \A c \in loaded_chunks :
            overlaps(c, area(chunk_min, chunk_max, LOAD_MARGIN)) => c \in written_chunks

\* C6: save() writes the chunk at (x, z) if and only if chunk_min.x < x <
\* chunk_max.x and chunk_min.z < z < chunk_max.z, so no chunk of the outermost
\* ring is written and a window less than three chunks wide writes nothing.
SaveWritesInterior ==
    wpc = "saved" =>
        /\ written_chunks =
               {c \in (chunk_min[1] + 1 .. chunk_max[1] - 1)
                      \X (chunk_min[2] + 1 .. chunk_max[2] - 1) : TRUE}
        /\ \A c \in written_chunks :
               /\ c[1] \notin {chunk_min[1], chunk_max[1]}
               /\ c[2] \notin {chunk_min[2], chunk_max[2]}
        /\ (chunk_max[1] - chunk_min[1] < 2 \/ chunk_max[2] - chunk_min[2] < 2)
               => written = <<>>
        /\ Cardinality(written_chunks) = Len(written)

\* save() ran on a window that has interior chunks and wrote them
SaveWritesInteriorWitness ==
    /\ wpc = "saved"
    /\ written # <<>>
    /\ chunk_max[1] - chunk_min[1] >= 2

(***************************************************************************)
(* bits_per_index called on its own (world/mod.rs).                        *)
(***************************************************************************)
\* the palette lengths tried: a section has at most 4096 blocks and Air
MaxPaletteLen == 4100

BitsInit ==
    /\ fpc = "call"
    /\ fn_arg \in 1..MaxPaletteLen
    /\ fn_ret = None
    /\ UNKNOWN_BLOCKS = UnknownBlocks(0)
    /\ CodecIdle /\ BlockIdle /\ InternIdle /\ ChunkIdle /\ WindowIdle /\ AccessIdle /\ SaveIdle /\ RotIdle /\ LoadIdle /\ AssignIdle

BitsPerIndex ==
    /\ fpc = "call"
    /\ fn_ret' = bits_per_index(fn_arg)
    /\ fpc' = "returned"
    /\ UNCHANGED <<fn_arg, codec_vars, block_vars, intern_vars, chunk_vars, window_vars,
                   UNKNOWN_BLOCKS, access_vars, save_vars, rot_vars, load_vars, assign_vars>>

BitsNext == BitsPerIndex

SpecBits == BitsInit /\ [][BitsNext]_vars

\* C11: bits_per_index(P) is the smallest k with P <= 2^k, and 4 when that
\* k is below 4.
BitsPerIndexMinimal ==
    fpc = "returned" =>
        /\ fn_ret >= 4
        /\ fn_arg <= 2 ^ fn_ret
        /\ fn_ret > 4 => fn_arg > 2 ^ (fn_ret - 1)

\* the call on the largest palette a section can have returned 13
BitsPerIndexMinimalWitness ==
    fpc = "returned" /\ fn_arg = SectionBlocks + 1 /\ fn_ret = 13

(***************************************************************************)
(* The queries and mutations of WorldView on a World of several chunks     *)
(* (world/mod.rs).  A Pos is <<x, y, z>>.  sections, heightmap, watermap   *)
(* and biome are the flat Vecs of the World; a section is kept sparse.  A  *)
(* call returns Some(value), or Panic when it aborts.                      *)
(***************************************************************************)
Panic == <<"!panic">>

\* stands for a usize of 2^64 - k: an index above the length of every Vec
UsizeHigh == 2147483647

\* ChunkIndex::from(Pos)
chunk_index_from_pos(pos) == chunk_index_from(<<pos[1], pos[3]>>)

\* the same with the chunks counted along z first
chunk_index_z_first(chunk, lo, hi) ==
    IF \/ chunk[1] < lo[1] \/ chunk[1] > hi[1]
       \/ chunk[2] < lo[2] \/ chunk[2] > hi[2]
    THEN Panic
    ELSE Some((chunk[2] - lo[2]) + (chunk[1] - lo[1]) * (hi[2] - lo[2] + 1))

\* World::chunk_index
chunk_index(chunk, lo, hi) ==
    IF \/ chunk[1] < lo[1] \/ chunk[1] > hi[1]
       \/ chunk[2] < lo[2] \/ chunk[2] > hi[2]
    THEN Panic
    ELSE Some((chunk[1] - lo[1]) + (chunk[2] - lo[2]) * (hi[1] - lo[1] + 1))

\* base + (offset as usize): a negative i32 becomes 2^64 + offset, and the
\* sum overflows when base + offset >= 0
add_as_usize(base, offset, checks) ==
    IF offset >= 0 THEN Some(base + offset)
    ELSE IF base + offset >= 0 THEN (IF checks THEN Panic ELSE Some(base + offset))
    ELSE Some(UsizeHigh)

\* World::section_index
world_section_index(pos, lo, hi, checks) ==
    IF chunk_index(chunk_index_from_pos(pos), lo, hi) = Panic THEN Panic
    ELSE add_as_usize(chunk_index(chunk_index_from_pos(pos), lo, hi)[2] * SectionSlots,
                      trunc_div(pos[2], 16) + SlotOffset, checks)

\* World::column_index
world_column_index(column, lo, hi) ==
    IF chunk_index(chunk_index_from(column), lo, hi) = Panic THEN Panic
    ELSE Some(chunk_index(chunk_index_from(column), lo, hi)[2] * 16 * 16
              + column_index(column[1], column[2]))

\* <World as WorldView>::get
world_get(slots, pos, lo, hi, checks) ==
    IF world_section_index(pos, lo, hi, checks) = Panic THEN Panic
    ELSE IF world_section_index(pos, lo, hi, checks)[2] \notin DOMAIN slots THEN Panic
    ELSE IF slots[world_section_index(pos, lo, hi, checks)[2]] = None THEN Some(Air)
    ELSE Some(at(slots[world_section_index(pos, lo, hi, checks)[2]][2],
                 block_in_section_index(pos[1], pos[2], pos[3]), Air))

\* Option::get_or_insert_default on a slot
get_or_insert_default(slot) == IF slot = None THEN Some(<<>>) ELSE slot

\* section.blocks[i] = b, the section kept sparse
store(blocks, i, b) ==
    [k \in (DOMAIN blocks \ {i}) \cup (IF b = Air THEN {} ELSE {i}) |->
        IF k = i THEN b ELSE blocks[k]]

\* <World as WorldView>::get_mut followed by the write of set: the slots
\* afterwards, or Panic
world_set(slots, pos, b, lo, hi, checks) ==
    IF world_section_index(pos, lo, hi, checks) = Panic THEN Panic
    ELSE IF world_section_index(pos, lo, hi, checks)[2] \notin DOMAIN slots THEN Panic
    ELSE Some([slots EXCEPT ![world_section_index(pos, lo, hi, checks)[2]] =
                  Some(store(get_or_insert_default(@)[2],
                             block_in_section_index(pos[1], pos[2], pos[3]), b))])

\* <World as WorldView>::height
world_height(heights, column, lo, hi) ==
    IF world_column_index(column, lo, hi) = Panic THEN Panic
    ELSE Some(at(heights, world_column_index(column, lo, hi)[2], 0))

\* <World as WorldView>::water_level
world_water_level(levels, column, lo, hi) ==
    IF world_column_index(column, lo, hi) = Panic THEN Panic
    ELSE Some(at(levels, world_column_index(column, lo, hi)[2], None))

\* <World as WorldView>::biome
world_biome(biomes, column, lo, hi) ==
    IF chunk_index(chunk_index_from(column), lo, hi) = Panic THEN Panic
    ELSE IF chunk_index(chunk_index_from(column), lo, hi)[2] * 4 * 4
              + ((column[1] % 16) \div 4 + ((column[2] % 16) \div 4) * 4)
            \notin DOMAIN biomes THEN Panic
    ELSE Some(biomes[chunk_index(chunk_index_from(column), lo, hi)[2] * 4 * 4
                     + ((column[1] % 16) \div 4 + ((column[2] % 16) \div 4) * 4)])

\* the number of chunks of the window
chunk_count(lo, hi) == (hi[1] - lo[1] + 1) * (hi[2] - lo[2] + 1)

\* the positions the calls are made on: in both chunks along x and past them,
\* below, in and above the 24 sections
AccessXs == {-16, 0, 16}
AccessYs == {-80, -64, -1, 15, 320}
AccessZs == {0, 16}
AccessPositions == AccessXs \X AccessYs \X AccessZs
AccessColumns == AccessXs \X AccessZs
\* the blocks set
AccessBlocks == {<<"FullBlock", Mat("Stone")>>}
\* how many mutating calls a run makes
MaxCalls == 1

AccessInit ==
    /\ chunk_min = <<-1, 0>>
    /\ chunk_max \in {<<0, 0>>, <<0, 1>>}
    /\ sections = [i \in 0..(chunk_count(chunk_min, chunk_max) * SectionSlots - 1) |-> None]
    /\ heightmap = <<>>
    /\ watermap = <<>>
    /\ biome = [i \in 0..(chunk_count(chunk_min, chunk_max) * 4 * 4 - 1) |-> "default"]
    /\ overflow_checks \in BOOLEAN
    /\ calls = 0
    /\ probe = None
    /\ wpc = "open" /\ LOAD_MARGIN = 0
    /\ requested = extent(chunk_min, chunk_max)
    /\ chunks_loaded = chunk_order(chunk_min, chunk_max)
    /\ reported = None /\ written = <<>> /\ level_dat = None
    /\ kpc = "loaded" /\ chunk_file = <<>>
    /\ UNKNOWN_BLOCKS = UnknownBlocks(0)
    /\ CodecIdle /\ BlockIdle /\ InternIdle /\ FnIdle /\ SaveIdle /\ RotIdle /\ LoadIdle /\ AssignIdle

\* world.get(pos)
Get(pos) ==
    /\ probe' = Some([op |-> "get", at |-> pos,
                      result |-> world_get(sections, pos, chunk_min, chunk_max,
                                           overflow_checks)])
    /\ UNCHANGED <<kpc, chunk_file, sections, heightmap, watermap, access_vars,
                   codec_vars, block_vars, intern_vars, window_vars, fn_vars, UNKNOWN_BLOCKS,
                   save_vars, rot_vars, load_vars, assign_vars>>

\* world.set(pos, b)
Set(pos, b) ==
    /\ calls < MaxCalls
    /\ \E after \in {world_set(sections, pos, b, chunk_min, chunk_max, overflow_checks)} :
           /\ sections' = IF after = Panic THEN sections ELSE after[2]
           /\ probe' = Some([op |-> "set", at |-> pos,
                             result |-> IF after = Panic THEN Panic ELSE Some(b)])
    /\ calls' = calls + 1
    /\ UNCHANGED <<kpc, chunk_file, heightmap, watermap, biome, overflow_checks,
                   codec_vars, block_vars, intern_vars, window_vars, fn_vars, UNKNOWN_BLOCKS,
                   save_vars, rot_vars, load_vars, assign_vars>>

\* world.height(column)
Height(column) ==
    /\ probe' = Some([op |-> "height", at |-> column,
                      result |-> world_height(heightmap, column, chunk_min, chunk_max)])
    /\ UNCHANGED <<kpc, chunk_file, sections, heightmap, watermap, access_vars,
                   codec_vars, block_vars, intern_vars, window_vars, fn_vars, UNKNOWN_BLOCKS,
                   save_vars, rot_vars, load_vars, assign_vars>>

\* world.water_level(column)
WaterLevel(column) ==
    /\ probe' = Some([op |-> "water_level", at |-> column,
                      result |-> world_water_level(watermap, column, chunk_min, chunk_max)])
    /\ UNCHANGED <<kpc, chunk_file, sections, heightmap, watermap, access_vars,
                   codec_vars, block_vars, intern_vars, window_vars, fn_vars, UNKNOWN_BLOCKS,
                   save_vars, rot_vars, load_vars, assign_vars>>

\* world.biome(column)
BiomeAt(column) ==
    /\ probe' = Some([op |-> "biome", at |-> column,
                      result |-> world_biome(biome, column, chunk_min, chunk_max)])
    /\ UNCHANGED <<kpc, chunk_file, sections, heightmap, watermap, access_vars,
                   codec_vars, block_vars, intern_vars, window_vars, fn_vars, UNKNOWN_BLOCKS,
                   save_vars, rot_vars, load_vars, assign_vars>>

AccessNext ==
    \/ \E pos \in AccessPositions : Get(pos)
    \/ \E pos \in AccessPositions, b \in AccessBlocks : Set(pos, b)
    \/ \E column \in AccessColumns : Height(column)
    \/ \E column \in AccessColumns : WaterLevel(column)
    \/ \E column \in AccessColumns : BiomeAt(column)

SpecAccess == AccessInit /\ [][AccessNext]_vars

\* the chunk of the position is loaded and, for a Pos, its y is in a section
\* the World stores
in_bounds(at_pos) ==
    /\ chunk_index(chunk_index_from(<<at_pos[1], at_pos[Len(at_pos)]>>),
                   chunk_min, chunk_max) # Panic
    /\ Len(at_pos) = 3 => at_pos[2] \in WorldYs

\* C12: get, set, height, water_level and biome abort for every position
\* whose chunk is not loaded or whose y is outside the 24 sections.
OutOfBoundsRejected ==
    (probe # None /\ ~in_bounds(probe[2].at)) => probe[2].result = Panic

\* the positions tried that the World holds
InBoundsPositions == {q \in AccessPositions : in_bounds(q)}

\* C13: a set(p, b) on a position the World holds changes exactly one voxel:
\* afterwards get(p) = b, get(q) is what it was for every other position q
\* the World holds, heights, water levels and biomes are what they were, and
\* a section that was absent holds nothing but b.
SetIsRawMutation ==
    [][(calls' = calls + 1 /\ in_bounds(probe'[2].at)) =>
          /\ probe'[2].result # Panic
          /\ world_get(sections', probe'[2].at, chunk_min, chunk_max, overflow_checks)
                 = probe'[2].result
          /\ \A q \in InBoundsPositions \ {probe'[2].at} :
                 world_get(sections', q, chunk_min, chunk_max, overflow_checks)
                     = world_get(sections, q, chunk_min, chunk_max, overflow_checks)
          /\ \A i \in DOMAIN sections :
                 (sections[i] = None /\ sections'[i] # None) =>
                     \A k \in DOMAIN sections'[i][2] : sections'[i][2][k] = probe'[2].result[2]
          /\ heightmap' = heightmap /\ watermap' = watermap /\ biome' = biome
      ]_vars

(***************************************************************************)
(* save_chunk (world/mod.rs): the record written for one chunk.  A         *)
(* CompoundTag is a function from its keys.                                *)
(***************************************************************************)
RECURSIVE ascending(_)
\* the elements of a set of numbers, in increasing order
ascending(S) ==
    IF S = {} THEN <<>>
    ELSE <<CHOOSE m \in S : \A n \in S : m <= n>>
         \o ascending(S \ {CHOOSE m \in S : \A n \in S : m <= n})

\* Section.blocks as the array it is
dense(blocks) == [i \in 0..(SectionBlocks - 1) |-> at(blocks, i, Air)]

\* Block::tile_entity_nbt
tile_entity_nbt(b, pos) ==
    CASE b[1] = "Bell" ->
            Some([id |-> "bell", x |-> pos[1], y |-> pos[2], z |-> pos[3]])
      [] b[1] = "WallBanner" ->
            Some([id |-> "banner", x |-> pos[1], y |-> pos[2], z |-> pos[3]])
      [] b[1] = "CommandBlock" ->
            Some([id |-> "command_block", Command |-> b[2], TrackOutput |-> FALSE,
                  x |-> pos[1], y |-> pos[2], z |-> pos[3]])
      [] OTHER -> None

\* save_chunk, "Collect TileEntity data": the position of block i of the
\* section with index y_index
tile_pos(index, y_index, i) ==
    <<index[1] * 16 + (i % 16), y_index * 16 + (i \div (16 * 16)),
      index[2] * 16 + ((i % (16 * 16)) \div 16)>>

\* the records one section adds to tile_entities, in the order of its blocks
section_tile_entities(index, y_index, blocks) ==
    LET with_payload == ascending({i \in DOMAIN blocks :
                            tile_entity_nbt(blocks[i], tile_pos(index, y_index, i)) # None})
    IN  [k \in 1..Len(with_payload) |->
            tile_entity_nbt(blocks[with_payload[k]],
                            tile_pos(index, y_index, with_payload[k]))[2]]

RECURSIVE concat(_, _)
\* the sequences f[k], for the k of the sequence keys, one after another
concat(f, keys) ==
    IF keys = <<>> THEN <<>> ELSE f[Head(keys)] \o concat(f, Tail(keys))

\* save_chunk: the compound written for the chunk; slots are its 24 slots
save_chunk(index, slots, chunk_entities) ==
    LET present == ascending({slot \in DOMAIN slots : slots[slot] # None}) IN
    [DataVersion |-> 3465, xPos |-> index[1], zPos |-> index[2],
     LastUpdate |-> 0, TerrainPopulated |-> 1, InhabitetTime |-> 0, Status |-> "full",
     sections |-> [k \in 1..Len(present) |->
                      save_section(present[k] - SlotOffset, dense(slots[present[k]][2]))],
     block_entities |->
         concat([slot \in DOMAIN slots |->
                    IF slots[slot] = None THEN <<>>
                    ELSE section_tile_entities(index, slot - SlotOffset, slots[slot][2])],
                present)]

\* the 24 slots of chunk number k of the World: chunks_exact(24)
chunk_slots(slots, k) == [slot \in 0..(SectionSlots - 1) |-> slots[k * SectionSlots + slot]]

\* the chunks, the heights and the blocks of the chunks saved
TileChunks == {<<0, 0>>, <<-1, 2>>}
TileYs == {-17, 0, 70}
TileBlocks == {<<"CommandBlock", "say hi">>, <<"Bell", "north", "Floor">>,
               <<"WallBanner", "west", "Red">>, <<"FullBlock", Mat("Stone")>>}

\* a World of one chunk in which generation has set a bell at y = 64 and one
\* more block
TileInit ==
    /\ chunk_min \in TileChunks
    /\ chunk_max = chunk_min
    /\ overflow_checks \in {FALSE}
    /\ \E y \in TileYs, b \in TileBlocks :
           sections =
               world_set(
                   world_set([i \in 0..(SectionSlots - 1) |-> None],
                             <<chunk_min[1] * 16, 64, chunk_min[2] * 16>>,
                             <<"Bell", "north", "Floor">>,
                             chunk_min, chunk_max, overflow_checks)[2],
                   <<chunk_min[1] * 16 + 3, y, chunk_min[2] * 16 + 5>>, b,
                   chunk_min, chunk_max, overflow_checks)[2]
    /\ heightmap = <<>>
    /\ watermap = <<>>
    /\ biome = [i \in 0..(4 * 4 - 1) |-> "default"]
    /\ calls = 0
    /\ probe = None
    /\ entities = <<>> /\ entities_chunked = <<>> /\ cursor = 0
    /\ region = <<>>
    /\ wpc = "open" /\ LOAD_MARGIN = 0
    /\ requested = extent(chunk_min, chunk_max)
    /\ chunks_loaded = chunk_order(chunk_min, chunk_max)
    /\ reported = None /\ written = <<>> /\ level_dat = None
    /\ kpc = "loaded" /\ chunk_file = <<>>
    /\ UNKNOWN_BLOCKS = UnknownBlocks(0)
    /\ CodecIdle /\ BlockIdle /\ InternIdle /\ FnIdle /\ RotIdle /\ LoadIdle /\ AssignIdle

\* save_chunk(chunk_provider, index, sections, entities) on the chunk
SaveChunk ==
    /\ region = <<>>
    /\ \E record \in {save_chunk(chunk_min, chunk_slots(sections, 0), <<>>)} :
           region' = [index \in {chunk_min} |-> record]
    /\ UNCHANGED <<entities, entities_chunked, cursor, chunk_vars, access_vars,
                   codec_vars, block_vars, intern_vars, window_vars, fn_vars, UNKNOWN_BLOCKS,
                   rot_vars, load_vars, assign_vars>>

\* world.get(pos) with the chunk saved
TileGet(pos) ==
    /\ region # <<>>
    /\ probe' = Some([op |-> "get", at |-> pos,
                      result |-> world_get(sections, pos, chunk_min, chunk_max,
                                           overflow_checks)])
    /\ UNCHANGED <<kpc, chunk_file, sections, heightmap, watermap, access_vars, save_vars,
                   codec_vars, block_vars, intern_vars, window_vars, fn_vars, UNKNOWN_BLOCKS,
                   rot_vars, load_vars, assign_vars>>

\* the positions of the chunk that are read
TilePositions ==
    {<<chunk_min[1] * 16 + x, y, chunk_min[2] * 16 + z>> :
        x \in {0, 3}, y \in TileYs \cup {-1, 64}, z \in {0, 5}}

TileNext ==
    \/ SaveChunk
    \/ \E pos \in TilePositions : TileGet(pos)

SpecTile == TileInit /\ [][TileNext]_vars

\* the blocks of the chunk that carry payload, as <<slot, index in the section>>
payload_cells ==
    UNION {{<<slot, i>> : i \in {i \in DOMAIN sections[slot][2] :
                                   sections[slot][2][i][1]
                                       \in {"CommandBlock", "Bell", "WallBanner"}}} :
           slot \in {slot \in DOMAIN sections : sections[slot] # None}}

\* C19: the tile-entity records save_chunk writes are one per block with
\* payload (command block, bell, wall banner) and none for other blocks, each
\* keyed by the position at which get() returns that block.
TileEntitiesMatchBlocks ==
    region # <<>> =>
        LET tiles == region[chunk_min].block_entities IN
        /\ \A k \in 1..Len(tiles) :
               tile_entity_nbt(world_get(sections, <<tiles[k].x, tiles[k].y, tiles[k].z>>,
                                         chunk_min, chunk_max, overflow_checks)[2],
                               <<tiles[k].x, tiles[k].y, tiles[k].z>>) = Some(tiles[k])
        /\ \A j, k \in 1..Len(tiles) :
               j # k => <<tiles[j].x, tiles[j].y, tiles[j].z>>
                            # <<tiles[k].x, tiles[k].y, tiles[k].z>>
        /\ Len(tiles) = Cardinality(payload_cells)
        /\ \A pos \in TilePositions :
               tile_entity_nbt(world_get(sections, pos, chunk_min, chunk_max,
                                         overflow_checks)[2], pos) # None
                   => \E k \in 1..Len(tiles) :
                          <<tiles[k].x, tiles[k].y, tiles[k].z>> = pos

(***************************************************************************)
(* World::save step by step (world/mod.rs): the entities are sorted into   *)
(* their chunks, the loop passes the chunks one at a time and writes the   *)
(* interior ones, then level.dat is edited.  A write to the disk can fail, *)
(* which panics.  An entity is the Pos it is at.  The World holds no       *)
(* blocks here.                                                            *)
(***************************************************************************)
\* save(): entities_chunked, or Panic when chunk_index panics for an entity
chunk_entities(all, lo, hi) ==
    IF \E k \in 1..Len(all) : chunk_index(chunk_index_from_pos(all[k]), lo, hi) = Panic
    THEN Panic
    ELSE Some([c \in 0..(chunk_count(lo, hi) - 1) |->
                  LET here(entity) ==
                          chunk_index(chunk_index_from_pos(entity), lo, hi) = Some(c)
                  IN  SelectSeq(all, here)])

\* the same with the metadata edited whenever
loop_done_any_time(passed, count) == TRUE

\* the for loop over the chunks has ended
loop_done(passed, count) == passed >= count

\* the windows saved, the positions of the entities and how many there are
SaveWindows == {<<<<0, 0>>, <<2, 2>>>>, <<<<-2, -1>>, <<1, 1>>>>, <<<<0, 0>>, <<1, 3>>>>}
EntityPositions == {<<17, 70, 17>>, <<0, 64, 0>>, <<-1, 64, 5>>, <<100, 0, 100>>}
MaxEntities == 2

RECURSIVE lists(_, _)
\* the sequences over S of length at most n
lists(S, n) ==
    IF n = 0 THEN {<<>>}
    ELSE lists(S, n - 1) \cup {Append(l, e) : l \in lists(S, n - 1), e \in S}

LevelDat ==
    [LevelName |-> "world", LastPlayed |-> 0, Difficulty |-> 2,
     GameRules |-> [k \in {"commandBlockOutput"} |-> "true"],
     SpawnX |-> 0, SpawnZ |-> 0]

SaveInit ==
    /\ wpc = "open"
    /\ \E w \in SaveWindows : chunk_min = w[1] /\ chunk_max = w[2]
    /\ entities \in lists(EntityPositions, MaxEntities)
    /\ entities_chunked = <<>>
    /\ cursor = 0
    /\ region = <<>>
    /\ written = <<>>
    /\ level_dat = LevelDat
    /\ sections = [i \in 0..(chunk_count(chunk_min, chunk_max) * SectionSlots - 1) |-> None]
    /\ heightmap = <<>> /\ watermap = <<>> /\ probe = None
    /\ biome = [i \in 0..(chunk_count(chunk_min, chunk_max) * 4 * 4 - 1) |-> "default"]
    /\ overflow_checks \in {FALSE}
    /\ calls = 0
    /\ LOAD_MARGIN = 0
    /\ requested = extent(chunk_min, chunk_max)
    /\ chunks_loaded = chunk_order(chunk_min, chunk_max)
    /\ reported = None
    /\ kpc = "loaded" /\ chunk_file = <<>>
    /\ UNKNOWN_BLOCKS = UnknownBlocks(0)
    /\ CodecIdle /\ BlockIdle /\ InternIdle /\ FnIdle /\ RotIdle /\ LoadIdle /\ AssignIdle

\* save(), up to the loop over the chunks
SaveStart ==
    /\ wpc = "open"
    /\ \E chunked \in {chunk_entities(entities, chunk_min, chunk_max)} :
           /\ wpc' = IF chunked = Panic THEN "panicked" ELSE "saving"
           /\ entities_chunked' = IF chunked = Panic THEN entities_chunked ELSE chunked[2]
    /\ UNCHANGED <<entities, cursor, region, written, level_dat,
                   LOAD_MARGIN, requested, chunk_min, chunk_max, chunks_loaded, reported,
                   chunk_vars, access_vars,
                   codec_vars, block_vars, intern_vars, fn_vars, UNKNOWN_BLOCKS, rot_vars,
                   load_vars, assign_vars>>

\* save(): one pass of the loop; the write of an interior chunk can fail
PassChunk ==
    /\ wpc = "saving"
    /\ ~loop_done(cursor, chunk_count(chunk_min, chunk_max))
    /\ \E index \in {chunk_order(chunk_min, chunk_max)[cursor + 1]}, io_ok \in BOOLEAN :
           IF ~is_saved(index, chunk_min, chunk_max)
           THEN /\ io_ok
                /\ UNCHANGED <<wpc, region, written, rot_vars, load_vars, assign_vars>>
           ELSE IF io_ok
           THEN /\ region' = insert(region, index,
                                    save_chunk(index, chunk_slots(sections, cursor),
                                               entities_chunked[cursor]))
                /\ written' = Append(written, index)
                /\ UNCHANGED wpc
           ELSE /\ wpc' = "panicked"
                /\ UNCHANGED <<region, written, rot_vars, load_vars, assign_vars>>
    /\ cursor' = cursor + 1
    /\ UNCHANGED <<entities, entities_chunked, level_dat,
                   LOAD_MARGIN, requested, chunk_min, chunk_max, chunks_loaded, reported,
                   chunk_vars, access_vars,
                   codec_vars, block_vars, intern_vars, fn_vars, UNKNOWN_BLOCKS, rot_vars,
                   load_vars, assign_vars>>

\* save(), "Edit metadata": level.dat is read, edited and written back;
\* opening, reading or writing it can fail
EditMetadata ==
    /\ wpc = "saving"
    /\ loop_done(cursor, chunk_count(chunk_min, chunk_max))
    /\ \E io_ok \in BOOLEAN, now \in Clock :
           IF io_ok
           THEN /\ level_dat' = edit_metadata(level_dat, now,
                                    center(area(chunk_min, chunk_max, LOAD_MARGIN)))
                /\ wpc' = "saved"
           ELSE /\ now = 1
                /\ wpc' = "panicked"
                /\ UNCHANGED level_dat
    /\ UNCHANGED <<entities, entities_chunked, cursor, region, written,
                   LOAD_MARGIN, requested, chunk_min, chunk_max, chunks_loaded, reported,
                   chunk_vars, access_vars,
                   codec_vars, block_vars, intern_vars, fn_vars, UNKNOWN_BLOCKS, rot_vars,
                   load_vars, assign_vars>>

SaveNext == SaveStart \/ PassChunk \/ EditMetadata

SpecSave == SaveInit /\ [][SaveNext]_vars

\* C18: on save every entity is assigned to the chunk that contains its
\* position, and the record written for an interior chunk holds every entity
\* assigned to it.
EntitiesSerialized ==
    /\ wpc \in {"saving", "saved"} =>
           \A k \in 1..Len(entities) :
               \E j \in 1..Len(entities_chunked[
                                 chunk_index(chunk_index_from_pos(entities[k]),
                                             chunk_min, chunk_max)[2]]) :
                   entities_chunked[chunk_index(chunk_index_from_pos(entities[k]),
                                                chunk_min, chunk_max)[2]][j] = entities[k]
    /\ wpc = "saved" =>
           \A k \in 1..Len(entities) :
               is_saved(chunk_index_from_pos(entities[k]), chunk_min, chunk_max) =>
                   \E key \in {"Entities", "entities"}
                                  \cap DOMAIN region[chunk_index_from_pos(entities[k])] :
                       \E j \in 1..Len(region[chunk_index_from_pos(entities[k])][key]) :
                           region[chunk_index_from_pos(entities[k])][key][j] = entities[k]

\* level.dat has been edited
metadata_edited == level_dat # LevelDat

\* C20: the chunks are written one after another, level.dat is edited once
\* and only when every interior chunk has been written, and it is not edited
\* when a write failed.
SaveIsSequential ==
    /\ [](metadata_edited =>
              /\ wpc = "saved"
              /\ written = saved_chunks(chunk_min, chunk_max)
              /\ DOMAIN region = {written[k] : k \in 1..Len(written)}
              /\ level_dat.LevelName = "world [generated]")
    /\ [](wpc = "panicked" => ~metadata_edited)
    /\ [][/\ written' # written =>
                 /\ Len(written') = Len(written) + 1
                 /\ SubSeq(written', 1, Len(written)) = written
                 /\ level_dat' = level_dat
          /\ level_dat' # level_dat => ~metadata_edited /\ written' = written]_vars

\* a save of a window with two interior chunks has written both and edited
\* level.dat
SaveIsSequentialWitness ==
    wpc = "saved" /\ cursor > 0 /\ Len(written) = 2 /\ metadata_edited

(***************************************************************************)
(* Block::rotated of both block modules.  A block is rotated by a number   *)
(* of quarter turns, and the result may be rotated again.                  *)
(***************************************************************************)
\* geometry: HDir::rotated(turns), a turn being 90 degrees clockwise
hdir_rotated(dir, turns) ==
    LET order == <<"north", "east", "south", "west">>
        k == CHOOSE i \in 1..4 : order[i] = dir
    IN  order[((k - 1 + turns) % 4) + 1]

\* world/block.rs: Block::rotated
rotated(block, turns) ==
    CASE block[1] = "Log" /\ block[3] = <<"Normal", "X">> ->
            <<"Log", block[2], <<"Normal", "Z">>>>
      [] block[1] = "Log" /\ block[3] = <<"Normal", "Z">> ->
            <<"Log", block[2], <<"Normal", "X">>>>
      [] block[1] = "Stair" ->
            <<"Stair", block[2], hdir_rotated(block[3], turns), block[4]>>
      [] block[1] = "WallBanner" ->
            <<"WallBanner", hdir_rotated(block[2], turns), block[3]>>
      [] block[1] = "Repeater" ->
            <<"Repeater", hdir_rotated(block[2], turns), block[3]>>
      [] OTHER -> block

\* level/block.rs: Block::rotated
level_rotated(block, turns) ==
    CASE block[1] = "Log" /\ block[3] = <<"Normal", "X">> ->
            <<"Log", block[2], <<"Normal", "Y">>>>
      [] block[1] = "Log" /\ block[3] = <<"Normal", "Y">> ->
            <<"Log", block[2], <<"Normal", "X">>>>
      [] block[1] = "Stair" ->
            <<"Stair", block[2], hdir_rotated(block[3], turns), block[4]>>
      [] block[1] = "WallBanner" ->
            <<"WallBanner", hdir_rotated(block[2], turns), block[3]>>
      [] block[1] = "Repeater" ->
            <<"Repeater", hdir_rotated(block[2], turns), block[3]>>
      [] block[1] \in {"Trapdoor", "Door"} ->
            <<block[1], block[2], hdir_rotated(block[3], turns), block[4]>>
      [] OTHER -> block

\* rotated() of the block module e
rotate(e, block, turns) ==
    IF e = "world" THEN rotated(block, turns) ELSE level_rotated(block, turns)

\* the blocks rotated: logs of every LogType, and blocks of other kinds
RotateBlocks(e) ==
    {<<"Log", species, <<"Normal", axis>>>> : species \in {"Oak", "Birch"},
                                              axis \in {"X", "Y", "Z"}}
    \cup {<<"Log", "Oak", <<"FullBark">>>>, Air, <<"FullBlock", Mat("Stone")>>,
          <<"WallBanner", "north", "Red">>, <<"Repeater", "west", 2>>}
    \cup IF e = "world" THEN {}
         ELSE {<<"Log", "Oak", <<"Stripped", axis>>>> : axis \in {"X", "Y", "Z"}}
\* the turns passed to rotated()
MaxTurns == 3
\* how many times a block is rotated
MaxRotations == 2

RotateInit ==
    /\ era \in {"world", "level"}
    /\ fn_arg \in RotateBlocks(era)
    /\ rotated_block = fn_arg
    /\ turns_applied = <<>>
    /\ fpc = "call" /\ fn_ret = None
    /\ bpc = "idle" /\ named_state = None
    /\ block_read = None /\ encoded = None /\ block_reread = None
    /\ UNKNOWN_BLOCKS = UnknownBlocks(0)
    /\ CodecIdle /\ InternIdle /\ ChunkIdle /\ WindowIdle /\ AccessIdle /\ SaveIdle /\ LoadIdle /\ AssignIdle

\* block.rotated(turns)
Rotate(turns) ==
    /\ fpc = "call"
    /\ Len(turns_applied) < MaxRotations
    /\ rotated_block' = rotate(era, rotated_block, turns)
    /\ turns_applied' = Append(turns_applied, turns)
    /\ UNCHANGED <<fn_vars, block_vars, codec_vars, intern_vars, chunk_vars, window_vars,
                   access_vars, save_vars, UNKNOWN_BLOCKS, load_vars, assign_vars>>

RotateNext == \E turns \in 0..MaxTurns : Rotate(turns)

SpecRotate == RotateInit /\ [][RotateNext]_vars

\* the two axes of the ground plane in block module e: x and z in world
\* (Pos is x, y up, z), X and Y in level (HAxis::X, HAxis::Y)
horizontal_axes(e) == IF e = "world" THEN {"X", "Z"} ELSE {"X", "Y"}

\* a log of a LogType with an axis, lying along Axis a
log_along(block, a) ==
    /\ block[1] = "Log"
    /\ block[3][1] \in {"Normal", "Stripped"}
    /\ block[3][2] = a

\* C22: one quarter turn of a log lying along one of the two horizontal axes
\* leaves it lying along the other, a second quarter turn gives the log
\* back, and a log standing along the vertical axis is left as it is by
\* either.
QuarterTurnSwapsAxis ==
    /\ turns_applied = <<1>> =>
           /\ \A a \in horizontal_axes(era) :
                  log_along(fn_arg, a) =>
                      \E b \in horizontal_axes(era) \ {a} :
                          rotated_block = <<"Log", fn_arg[2], <<fn_arg[3][1], b>>>>
           /\ \A a \in {"X", "Y", "Z"} \ horizontal_axes(era) :
                  log_along(fn_arg, a) => rotated_block = fn_arg
    /\ turns_applied = <<1, 1>> =>
           (fn_arg[1] = "Log" => rotated_block = fn_arg)

\* C23: over any calls of rotated() a log lying along a horizontal axis has
\* its axis back when the turns add up to an even number and swapped when
\* they add up to an odd one: two calls equal one call with the sum of their
\* turns.
TurnsAddUp ==
    \A a \in horizontal_axes(era) :
        log_along(fn_arg, a) /\ fn_arg[3][1] = "Normal" =>
            /\ Len(turns_applied) = 1 /\ turns_applied[1] % 2 = 0 =>
                   rotated_block = fn_arg
            /\ Len(turns_applied) = 1 /\ turns_applied[1] % 2 = 1 =>
                   /\ rotated_block # fn_arg
                   /\ \E b \in horizontal_axes(era) \ {a} : log_along(rotated_block, b)
            /\ Len(turns_applied) = 2 =>
                   rotated_block = rotate(era, fn_arg, turns_applied[1] + turns_applied[2])

(***************************************************************************)
(* A World from new to save: World::new loads every chunk of the window    *)
(* into its 24 slots, get() reads them, and save() (the steps above)       *)
(* writes the interior chunks back.  Each chunk on disk has a block of its *)
(* own in a column of its own.                                             *)
(***************************************************************************)
\* the block that only chunk c has, and where it is
mark_block(c) == Other(Blockstate("mark_" \o ToString(c[1]) \o "_" \o ToString(c[2]), <<>>))
mark_pos(c) == <<c[1] * 16 + (c[1] % 16), 1, c[2] * 16 + (c[2] % 16)>>

\* the record of chunk c on disk: one section, Y = 0, with dirt at its first
\* block and the chunk's own block at mark_pos(c), 4 bits an index
marked_chunk(c) ==
    LET index == block_in_section_index(mark_pos(c)[1], mark_pos(c)[2], mark_pos(c)[3]) IN
    [DataVersion |-> 3465, xPos |-> c[1], zPos |-> c[2],
     sections |->
         <<[Y |-> 0,
            palette |-> <<Nbt("air", None), Nbt("dirt", None), to_nbt(mark_block(c))>>,
            data |-> Some([w \in 1..(SectionBlocks \div 16) |->
                              (IF w = 1 THEN {0} ELSE {})
                              \cup (IF w = (index \div 16) + 1
                                    THEN {4 * (index % 16) + 1} ELSE {})])]>>]

RECURSIVE load_all(_, _, _)
\* World::new: what load_chunk made of the records of the first n chunks of
\* order, one entry per chunk
load_all(files, order, n) ==
    IF n = 0 THEN <<>>
    ELSE Append(load_all(files, order, n - 1), load_chunk(files[order[n]].sections))

\* World::new: the flat array whose chunks_exact_mut(size) the loads filled
flat(loads, field, size) ==
    [i \in UNION {{(k - 1) * size + j : j \in DOMAIN loads[k][field]} : k \in 1..Len(loads)}
        |-> loads[(i \div size) + 1][field][i % size]]

\* the windows opened: with one, two and two interior chunks and with none
PersistWindows ==
    {<<<<0, 0>>, <<2, 2>>>>, <<<<-2, -1>>, <<1, 1>>>>, <<<<-1, 0>>, <<1, 3>>>>,
     <<<<0, 0>>, <<1, 2>>>>}

PersistInit ==
    /\ wpc = "request"
    /\ LOAD_MARGIN = 0
    /\ \E w \in PersistWindows :
           /\ requested = extent(w[1], w[2])
           /\ region = [c \in (w[1][1]..w[2][1]) \X (w[1][2]..w[2][2]) |-> marked_chunk(c)]
    /\ chunk_min = None /\ chunk_max = None /\ chunks_loaded = <<>>
    /\ reported = None /\ written = <<>>
    /\ level_dat = LevelDat
    /\ entities = <<>> /\ entities_chunked = <<>> /\ cursor = 0
    /\ kpc = "file" /\ chunk_file = <<>>
    /\ sections = <<>> /\ heightmap = <<>> /\ watermap = <<>> /\ probe = None
    /\ biome = <<>> /\ overflow_checks = FALSE /\ calls = 0
    /\ UNKNOWN_BLOCKS = UnknownBlocks(0)
    /\ CodecIdle /\ BlockIdle /\ InternIdle /\ FnIdle /\ RotIdle /\ LoadIdle /\ AssignIdle

\* World::new(path, requested): the window, and load_chunk on every chunk
\* of it in the order of the slots
Open ==
    /\ wpc = "request"
    /\ \E opened \in {window(requested, LOAD_MARGIN)} :
       \E loads \in {load_all(region, chunk_order(opened.chunk_min, opened.chunk_max),
                              chunk_count(opened.chunk_min, opened.chunk_max))} :
           /\ chunk_min' = opened.chunk_min
           /\ chunk_max' = opened.chunk_max
           /\ chunks_loaded' = chunk_order(opened.chunk_min, opened.chunk_max)
           /\ IF \A k \in 1..Len(loads) : loads[k].ok
              THEN /\ sections' = flat(loads, "sections", SectionSlots)
                   /\ heightmap' = flat(loads, "heightmap", ChunkWidth * ChunkWidth)
                   /\ watermap' = flat(loads, "watermap", ChunkWidth * ChunkWidth)
                   /\ biome' = [i \in 0..(Len(loads) * 4 * 4 - 1) |-> "default"]
                   /\ wpc' = "open" /\ kpc' = "loaded"
              ELSE /\ wpc' = "panicked" /\ kpc' = "panicked"
                   /\ UNCHANGED <<sections, heightmap, watermap, biome, load_vars, assign_vars>>
    /\ UNCHANGED <<LOAD_MARGIN, requested, reported, written, level_dat,
                   chunk_file, probe, overflow_checks, calls,
                   codec_vars, block_vars, intern_vars, fn_vars, save_vars, rot_vars,
                   UNKNOWN_BLOCKS, load_vars, assign_vars>>

PersistNext ==
    \/ Open
    \/ SaveStart
    \/ PassChunk
    \/ EditMetadata
    \/ \E c \in DOMAIN region : wpc = "saved" /\ Get(mark_pos(c))

SpecPersist == PersistInit /\ [][PersistNext]_vars

\* the record decodes to the 24 slots get() and set() address for chunk c
record_of_slots(record, c) ==
    /\ record.xPos = c[1] /\ record.zPos = c[2]
    /\ chunk_index(c, chunk_min, chunk_max) # Panic
    /\ \E back \in {load_chunk(record.sections)} :
           /\ back.ok
           /\ \A slot \in 0..(SectionSlots - 1) :
                  back.sections[slot]
                      = sections[chunk_index(c, chunk_min, chunk_max)[2] * SectionSlots + slot]

\* C28: for every width and depth of the window, the slots get() addresses
\* for chunk (x, z) are those World::new filled from the record of (x, z),
\* and the record save() writes for (x, z) holds the blocks of those slots.
SavedFromOwnSlots ==
    /\ [](wpc \in {"open", "saving", "saved"} =>
              \A c \in DOMAIN region :
                  /\ world_get(sections, mark_pos(c), chunk_min, chunk_max, overflow_checks)
                         = Some(mark_block(c))
                  /\ \A d \in DOMAIN region \ {c} :
                         world_get(sections, mark_pos(d) , chunk_min, chunk_max,
                                   overflow_checks) # Some(mark_block(c)))
    /\ [][region' # region =>
              /\ Len(written') = Len(written) + 1
              /\ \A c \in DOMAIN region :
                     region'[c] # region[c] =>
                         /\ c = written'[Len(written')]
                         /\ record_of_slots(region'[c], c)]_vars

\* a window of four by three chunks was saved and get() then read the block
\* of an interior chunk
SavedFromOwnSlotsWitness ==
    /\ wpc = "saved"
    /\ chunk_max[1] - chunk_min[1] = 3 /\ chunk_max[2] - chunk_min[2] = 2
    /\ Len(written) = 2
    /\ probe # None
    /\ probe[2].at = mark_pos(written[2])
    /\ probe[2].result = Some(mark_block(written[2]))

(***************************************************************************)
(* World::new, the parallel load: one load_chunk call per chunk, each      *)
(* given the chunk's piece of sections, heightmap and watermap, the calls  *)
(* running in any order and interleaved between their steps.               *)
(***************************************************************************)
\* the same with every call given the first piece
slice_base_shared(k, size) == 0

\* par_chunks_exact_mut(size): where the piece of call k (from 0) starts
slice_base(k, size) == k * size

\* load_chunk: the slots of the call's piece after the loop over the sections
decoded_slots(sections_nbt) ==
    LET loaded_slots == load_sections(sections_nbt) IN
    [ok |-> \A slot \in DOMAIN loaded_slots :
                loaded_slots[slot] = None \/ loaded_slots[slot][2].ok,
     slots |-> [slot \in {j \in DOMAIN loaded_slots : loaded_slots[j] # None} |->
                   Some(loaded_slots[slot][2].blocks)]]

\* load_chunk: "Build water- & heightmap" over the call's piece of sections
scanned(slots) ==
    LET scans == [i \in 0..(ChunkWidth * ChunkWidth - 1) |->
                     column_scan(slots, i % 16, i \div 16)]
    IN  [heightmap |-> sparse([i \in DOMAIN scans |-> scans[i].height], 0),
         watermap |-> sparse([i \in DOMAIN scans |-> scans[i].water], None),
         stopped |-> {i \in DOMAIN scans :
                          \E slot \in DOMAIN slots, y \in 0..15 :
                              /\ slots[slot] # None
                              /\ ground(at(slots[slot][2], i + y * 16 * 16, Air))}]

\* array with the entries of piece written at base + their index
written_at(array, base, piece) ==
    [i \in DOMAIN array \cup {base + j : j \in DOMAIN piece} |->
        IF i - base \in DOMAIN piece THEN piece[i - base] ELSE array[i]]

\* the windows loaded: two and three chunks, along x and along z
LoadWindows == {<<<<0, 0>>, <<1, 0>>>>, <<<<-1, 1>>, <<-1, 3>>>>}

LoadInit ==
    /\ wpc = "request"
    /\ LOAD_MARGIN = 0
    /\ \E w \in LoadWindows :
           /\ requested = extent(w[1], w[2])
           /\ chunk_min = w[1] /\ chunk_max = w[2]
           /\ chunks_loaded = chunk_order(w[1], w[2])
           /\ region = [c \in (w[1][1]..w[2][1]) \X (w[1][2]..w[2][2]) |-> marked_chunk(c)]
           /\ sections = [i \in 0..(chunk_count(w[1], w[2]) * SectionSlots - 1) |-> None]
           /\ biome = [i \in 0..(chunk_count(w[1], w[2]) * 4 * 4 - 1) |-> "default"]
           /\ loading = [k \in 1..chunk_count(w[1], w[2]) |-> "start"]
    /\ heightmap = <<>> /\ watermap = <<>> /\ probe = None
    /\ touched = {}
    /\ reported = None /\ written = <<>> /\ level_dat = LevelDat
    /\ entities = <<>> /\ entities_chunked = <<>> /\ cursor = 0
    /\ kpc = "file" /\ chunk_file = <<>>
    /\ overflow_checks = FALSE /\ calls = 0
    /\ UNKNOWN_BLOCKS = UnknownBlocks(0)
    /\ CodecIdle /\ BlockIdle /\ InternIdle /\ FnIdle /\ RotIdle /\ AssignIdle

\* load_chunk: get_region(..)?.read_chunk(..)?, which can fail
ReadChunk(k) ==
    /\ wpc = "request"
    /\ loading[k] = "start"
    /\ \E io_ok \in BOOLEAN :
           loading' = [loading EXCEPT ![k] = IF io_ok THEN "read" ELSE "failed"]
    /\ UNCHANGED <<touched, chunk_vars, window_vars, access_vars, save_vars,
                   codec_vars, block_vars, intern_vars, fn_vars, rot_vars, UNKNOWN_BLOCKS,
                   assign_vars>>

\* load_chunk: the loop over the sections of the record
DecodeSections(k) ==
    /\ wpc = "request"
    /\ loading[k] = "read"
    /\ \E decoded \in {decoded_slots(region[chunks_loaded[k]].sections)} :
           IF decoded.ok
           THEN /\ sections' = written_at(sections, slice_base(k - 1, SectionSlots),
                                          decoded.slots)
                /\ touched' = touched \cup
                       {<<"sections", slice_base(k - 1, SectionSlots) + slot, k>> :
                            slot \in DOMAIN decoded.slots}
                /\ loading' = [loading EXCEPT ![k] = "decoded"]
           ELSE /\ loading' = [loading EXCEPT ![k] = "failed"]
                /\ UNCHANGED <<sections, touched, assign_vars>>
    /\ UNCHANGED <<kpc, chunk_file, heightmap, watermap, probe,
                   window_vars, access_vars, save_vars,
                   codec_vars, block_vars, intern_vars, fn_vars, rot_vars, UNKNOWN_BLOCKS,
                   assign_vars>>

\* load_chunk: "Build water- & heightmap"
BuildMaps(k) ==
    /\ wpc = "request"
    /\ loading[k] = "decoded"
    /\ \E maps \in {scanned([slot \in 0..(SectionSlots - 1) |->
                                sections[slice_base(k - 1, SectionSlots) + slot]])} :
           /\ heightmap' = sparse(written_at(heightmap,
                                      slice_base(k - 1, ChunkWidth * ChunkWidth),
                                      [i \in maps.stopped |-> at(maps.heightmap, i, 0)]), 0)
           /\ watermap' = written_at(watermap, slice_base(k - 1, ChunkWidth * ChunkWidth),
                                     maps.watermap)
           /\ touched' = touched
                  \cup {<<"heightmap", slice_base(k - 1, ChunkWidth * ChunkWidth) + i, k>> :
                            i \in maps.stopped}
                  \cup {<<"watermap", slice_base(k - 1, ChunkWidth * ChunkWidth) + i, k>> :
                            i \in DOMAIN maps.watermap}
    /\ loading' = [loading EXCEPT ![k] = "done"]
    /\ UNCHANGED <<kpc, chunk_file, sections, probe,
                   window_vars, access_vars, save_vars,
                   codec_vars, block_vars, intern_vars, fn_vars, rot_vars, UNKNOWN_BLOCKS,
                   assign_vars>>

\* World::new: for_each returns when every call has; a failed one panics
Join ==
    /\ wpc = "request"
    /\ \A k \in DOMAIN loading : loading[k] \in {"done", "failed"}
    /\ wpc' = IF \E k \in DOMAIN loading : loading[k] = "failed" THEN "panicked" ELSE "open"
    /\ kpc' = IF \E k \in DOMAIN loading : loading[k] = "failed" THEN "panicked" ELSE "loaded"
    /\ UNCHANGED <<load_vars, chunk_file, sections, heightmap, watermap, probe,
                   LOAD_MARGIN, requested, chunk_min, chunk_max, chunks_loaded, reported,
                   written, level_dat, access_vars, save_vars,
                   codec_vars, block_vars, intern_vars, fn_vars, rot_vars, UNKNOWN_BLOCKS,
                   assign_vars>>

LoadNext ==
    \/ \E k \in DOMAIN loading : ReadChunk(k) \/ DecodeSections(k) \/ BuildMaps(k)
    \/ Join

SpecLoad == LoadInit /\ [][LoadNext]_vars

\* C21: no element of sections, heightmap or watermap is written by two of
\* the calls, and when all have returned the blocks, heights and water
\* levels are those of loading the chunks one after another, whatever the
\* order the calls ran in.
WorkersWriteDisjointPieces ==
    /\ \A s \in touched, t \in touched : (s[1] = t[1] /\ s[2] = t[2]) => s[3] = t[3]
    /\ wpc = "open" =>
           \E loads \in {load_all(region, chunks_loaded, Len(chunks_loaded))} :
               /\ sections = flat(loads, "sections", SectionSlots)
               /\ heightmap = flat(loads, "heightmap", ChunkWidth * ChunkWidth)
               /\ watermap = flat(loads, "watermap", ChunkWidth * ChunkWidth)

\* three chunks were loaded by three calls: the first has written heights,
\* the third sections, and get() finds the third chunk's block
WorkersWriteDisjointPiecesWitness ==
    /\ wpc = "open"
    /\ Len(loading) = 3
    /\ \E s \in touched : s[1] = "heightmap" /\ s[3] = 1
    /\ \E s \in touched : s[1] = "sections" /\ s[3] = 3
    /\ world_get(sections, mark_pos(chunks_loaded[3]), chunk_min, chunk_max, FALSE)
           = Some(mark_block(chunks_loaded[3]))

(***************************************************************************)
(* sim/lumberjack.rs: assign_worker, a system run once a tick.  Villagers  *)
(* are the entities 1..n and are iterated in that order; the Commands the  *)
(* system queues take effect when it has returned.                         *)
(***************************************************************************)
\* IVec3::distance_squared
distance_squared(p, q) ==
    (p[1] - q[1]) * (p[1] - q[1]) + (p[2] - q[2]) * (p[2] - q[2])
        + (p[3] - q[3]) * (p[3] - q[3])

\* available.iter().filter(|(e, _)| !assigned.contains(e)): assigned is the
\* Vec the function starts with and never pushes to
available(with_jobless, assigned) ==
    {v \in with_jobless : \A k \in 1..Len(assigned) : assigned[k] # v}

\* .min_by_key(|(_, p)| p.distance_squared(pos.0)): the first of the nearest
nearest(candidates, positions, pos) ==
    CHOOSE v \in candidates :
        \A u \in candidates :
            \/ distance_squared(positions[v], pos) < distance_squared(positions[u], pos)
            \/ /\ distance_squared(positions[v], pos) = distance_squared(positions[u], pos)
               /\ v <= u

RECURSIVE apply_commands(_, _)
\* the queue applied in order: remove::<Jobless>() and insert(Lumberworker)
apply_commands(queue, world) ==
    IF queue = <<>> THEN world
    ELSE apply_commands(Tail(queue),
             [jobless |-> world.jobless \ {Head(queue).worker},
              lumberworker |-> [world.lumberworker EXCEPT ![Head(queue).worker] =
                                    Some(Head(queue).workplace)]])

\* how many villagers there are, and how many workplaces a tick can add
MaxVillagers == 3
MaxBuilt == 2
\* where the villagers and the new workplaces are
VillagerPositions == {<<0, 64, 0>>, <<4, 64, 3>>, <<10, 64, 0>>}
BuiltPositions == {<<1, 64, 0>>, <<9, 65, 1>>}

AssignInit ==
    /\ apc = "running"
    /\ villager_pos \in [1..MaxVillagers -> VillagerPositions]
    /\ jobless \in SUBSET (1..MaxVillagers)
    /\ lumberworker = [v \in 1..MaxVillagers |-> None]
    /\ \E n \in 0..MaxBuilt :
           \E at_pos \in [1..n -> BuiltPositions] :
               new_built = [k \in 1..n |-> [workplace |-> 10 + k, pos |-> at_pos[k]]]
    /\ built_passed = 0
    /\ commands = <<>>
    /\ UNKNOWN_BLOCKS = UnknownBlocks(0)
    /\ CodecIdle /\ BlockIdle /\ InternIdle /\ ChunkIdle /\ WindowIdle /\ FnIdle
    /\ AccessIdle /\ SaveIdle /\ RotIdle /\ LoadIdle

\* one pass of `for (workplace, pos) in &new`
AssignPass ==
    /\ apc = "running"
    /\ built_passed < Len(new_built)
    /\ \E candidates \in {available(jobless, <<>>)} :
           IF candidates = {}
           THEN /\ apc' = "returned"
                /\ UNCHANGED <<built_passed, commands>>
           ELSE /\ commands' = Append(commands,
                       [worker |-> nearest(candidates, villager_pos,
                                           new_built[built_passed + 1].pos),
                        workplace |-> new_built[built_passed + 1].workplace])
                /\ built_passed' = built_passed + 1
                /\ UNCHANGED apc
    /\ UNCHANGED <<villager_pos, jobless, lumberworker, new_built,
                   codec_vars, block_vars, intern_vars, chunk_vars, window_vars, fn_vars,
                   access_vars, save_vars, rot_vars, load_vars, UNKNOWN_BLOCKS>>

\* the loop has passed every new workplace
AssignReturn ==
    /\ apc = "running"
    /\ built_passed = Len(new_built)
    /\ apc' = "returned"
    /\ UNCHANGED <<villager_pos, jobless, lumberworker, new_built, built_passed, commands,
                   codec_vars, block_vars, intern_vars, chunk_vars, window_vars, fn_vars,
                   access_vars, save_vars, rot_vars, load_vars, UNKNOWN_BLOCKS>>

\* the queued Commands are applied to the world
ApplyCommands ==
    /\ apc = "returned"
    /\ \E world \in {apply_commands(commands, [jobless |-> jobless,
                                               lumberworker |-> lumberworker])} :
           /\ jobless' = world.jobless
           /\ lumberworker' = world.lumberworker
    /\ commands' = <<>>
    /\ apc' = "applied"
    /\ UNCHANGED <<villager_pos, new_built, built_passed,
                   codec_vars, block_vars, intern_vars, chunk_vars, window_vars, fn_vars,
                   access_vars, save_vars, rot_vars, load_vars, UNKNOWN_BLOCKS>>

AssignNext == AssignPass \/ AssignReturn \/ ApplyCommands

SpecAssign == AssignInit /\ [][AssignNext]_vars

\* C30: within one run no villager is chosen for two workplaces, and after
\* it a workplace built this tick is without a worker only when no jobless
\* villager is left.
OneWorkerPerWorkplace ==
    /\ \A i \in 1..Len(commands), j \in 1..Len(commands) :
           commands[i].worker = commands[j].worker => i = j
    /\ apc = "applied" =>
           \A k \in 1..Len(new_built) :
               \/ \E v \in DOMAIN lumberworker :
                      lumberworker[v] = Some(new_built[k].workplace)
               \/ jobless = {}

====
